---------------------------- MODULE Spec2Model ----------------------------
(***************************************************************************)
(* Model of hora-argentina's NOAA solar position engine                    *)
(* (src/src/hora_argentina/noaa_solar_calculations.py) and of the          *)
(* single-instant command line tool (src/solar_times.py).                  *)
(*                                                                         *)
(* Numbers.  The program computes in IEEE doubles; the model computes in   *)
(* fixed point, with these units:                                          *)
(*   angles             millidegrees                 (1 deg   = 1000)      *)
(*   sin, cos, tan      ten-thousandths              (1.0     = 10000)     *)
(*   Julian century     microcenturies               (1 cy    = 10^6)      *)
(*   eccentricity, y    millionths                   (1.0     = 10^6)      *)
(*   equation of time   milliminutes                 (1 min   = 1000)      *)
(*   decimal hours      hundred-thousandths of hour  (1 h     = 10^5)      *)
(*   Julian Day         a record [day, sec]: day + sec/86400, 0<=sec<86400 *)
(* A value the code may fail to produce is a record [err |-> "<exception>"]*)
(* or [err |-> "", v |-> value].                                           *)
(***************************************************************************)
EXTENDS Integers, Sequences, FiniteSets, TLC

(* ------------------------------ bounds -------------------------------- *)
\* date_to_julian_day is exercised for the years 2000-YearSpan..2000+YearSpan
YearSpan == 1
\* yearly_sun_times_dataframe is run for the years 2023..2023+SweepYearCount-1
SweepYearCount == 2

(* ----------------------------- outcomes ------------------------------- *)
Ok(v) == [err |-> "", v |-> v]
Raise(e) == [err |-> e]
IsOk(r) == r.err = ""

(* ----------------------- calendar (datetime) -------------------------- *)
\* datetime's proleptic Gregorian calendar, used by fromisoformat, by
\* datetime - timedelta and by date + timedelta
is_leap(year) ==
    (year % 4 = 0) /\ ((year % 100 # 0) \/ (year % 400 = 0))

\* faulty variant: February has 29 days in every year
days_in_month_every_year_leap(year, month) ==
    IF month = 2 THEN 29
    ELSE IF month \in {4, 6, 9, 11} THEN 30 ELSE 31

days_in_month(year, month) ==
    IF month = 2 THEN (IF is_leap(year) THEN 29 ELSE 28)
    ELSE IF month \in {4, 6, 9, 11} THEN 30 ELSE 31

\* the fields datetime's constructor and fromisoformat accept
valid_date(y, m, d) ==
    /\ m \in 1..12
    /\ d >= 1
    /\ d <= days_in_month(y, m)

valid_time(hh, mi, ss) ==
    hh \in 0..23 /\ mi \in 0..59 /\ ss \in 0..59

next_day(dt) ==
    IF dt.d < days_in_month(dt.y, dt.m) THEN [dt EXCEPT !.d = dt.d + 1]
    ELSE IF dt.m < 12 THEN [dt EXCEPT !.m = dt.m + 1, !.d = 1]
    ELSE [dt EXCEPT !.y = dt.y + 1, !.m = 1, !.d = 1]

prev_day(dt) ==
    IF dt.d > 1 THEN [dt EXCEPT !.d = dt.d - 1]
    ELSE IF dt.m > 1
         THEN [dt EXCEPT !.m = dt.m - 1, !.d = days_in_month(dt.y, dt.m - 1)]
    ELSE [dt EXCEPT !.y = dt.y - 1, !.m = 12, !.d = 31]

RECURSIVE add_days(_, _)
add_days(dt, n) ==
    IF n = 0 THEN dt
    ELSE IF n > 0 THEN add_days(next_day(dt), n - 1)
    ELSE add_days(prev_day(dt), n + 1)

\* faulty variant: the offset is added instead of subtracted
sub_hours_added(dt, h) ==
    LET total == dt.hh + h
        shifted == add_days(dt, total \div 24)
    IN  [shifted EXCEPT !.hh = total % 24]

\* datetime - timedelta(hours=h): a whole number of hours, carried into the
\* day, the month and the year
sub_hours(dt, h) ==
    LET total == dt.hh - h
        shifted == add_days(dt, total \div 24)
    IN  [shifted EXCEPT !.hh = total % 24]

(* ------------------------- date_to_julian_day ------------------------- *)
\* target_date is one of
\*   [kind |-> "str10", y, m, d]              a 10-character "YYYY-MM-DD"
\*   [kind |-> "str", y, m, d, hh, mi, ss]    "YYYY-MM-DDTHH:MM:SS"
\*   [kind |-> "datetime", y, m, d, hh, mi, ss]
\*   [kind |-> "date", y, m, d]
\* datetime.fromisoformat: ValueError unless the fields form a real date
fromisoformat(y, m, d, hh, mi, ss) ==
    IF valid_date(y, m, d) /\ valid_time(hh, mi, ss)
    THEN Ok([y |-> y, m |-> m, d |-> d, hh |-> hh, mi |-> mi, ss |-> ss])
    ELSE Raise("ValueError")

\* the noon the code assumes when target_date carries no time
NoonHour == 12

\* faulty variant: a date without a time is taken at midnight
to_datetime_midnight(target_date) ==
    IF target_date.kind \in {"str10", "date"}
    THEN fromisoformat(target_date.y, target_date.m, target_date.d, 0, 0, 0)
    ELSE fromisoformat(target_date.y, target_date.m, target_date.d,
                       target_date.hh, target_date.mi, target_date.ss)

to_datetime(target_date) ==
    IF target_date.kind = "str10"
    THEN fromisoformat(target_date.y, target_date.m, target_date.d, NoonHour, 0, 0)
    ELSE IF target_date.kind = "str"
    THEN fromisoformat(target_date.y, target_date.m, target_date.d,
                       target_date.hh, target_date.mi, target_date.ss)
    ELSE IF target_date.kind = "datetime"
    THEN Ok([y |-> target_date.y, m |-> target_date.m, d |-> target_date.d,
             hh |-> target_date.hh, mi |-> target_date.mi, ss |-> target_date.ss])
    ELSE Ok([y |-> target_date.y, m |-> target_date.m, d |-> target_date.d,
             hh |-> NoonHour, mi |-> 0, ss |-> 0])

\* the integer Gregorian day number of the date part
jd_date(year, month, day) ==
    LET a == (14 - month) \div 12
        y == year + 4800 - a
        m == month + 12 * a - 3
    IN  day + (153 * m + 2) \div 5 + 365 * y + y \div 4 - y \div 100
            + y \div 400 - 32045

SecondsPerDay == 86400

\* faulty variant: the half day is not subtracted
julian_day_value_from_midnight(utc) ==
    [day |-> jd_date(utc.y, utc.m, utc.d),
     sec |-> utc.hh * 3600 + utc.mi * 60 + utc.ss]

\* jd_date + time_fraction - 0.5, as day + sec/86400
julian_day_value(utc) ==
    LET secs == utc.hh * 3600 + utc.mi * 60 + utc.ss
        jdn == jd_date(utc.y, utc.m, utc.d)
        half == SecondsPerDay \div 2
    IN  IF secs >= half THEN [day |-> jdn, sec |-> secs - half]
        ELSE [day |-> jdn - 1, sec |-> secs + half]

date_to_julian_day(target_date, utc_offset) ==
    LET target_datetime == to_datetime(target_date)
    IN  IF ~IsOk(target_datetime) THEN target_datetime
        ELSE Ok(julian_day_value(sub_hours(target_datetime.v, utc_offset)))

(* ------------------------ fixed-point numerics ------------------------ *)
Deg == 10^3        \* millidegrees per degree
Trig == 10^4       \* sin, cos, tan: 1.0
Micro == 10^6      \* microcenturies per century; eccentricity and y: 1.0
Hour == 10^5       \* decimal hours: 1 h

\* math.sin at whole degrees 0..90, times 10^4; SinTable[d + 1] = sin(d deg)
SinTable ==
    <<
       0, 175, 349, 523, 698, 872, 1045, 1219, 1392, 1564,
       1736, 1908, 2079, 2250, 2419, 2588, 2756, 2924, 3090, 3256,
       3420, 3584, 3746, 3907, 4067, 4226, 4384, 4540, 4695, 4848,
       5000, 5150, 5299, 5446, 5592, 5736, 5878, 6018, 6157, 6293,
       6428, 6561, 6691, 6820, 6947, 7071, 7193, 7314, 7431, 7547,
       7660, 7771, 7880, 7986, 8090, 8192, 8290, 8387, 8480, 8572,
       8660, 8746, 8829, 8910, 8988, 9063, 9135, 9205, 9272, 9336,
       9397, 9455, 9511, 9563, 9613, 9659, 9703, 9744, 9781, 9816,
       9848, 9877, 9903, 9925, 9945, 9962, 9976, 9986, 9994, 9998,
       10000
    >>

\* sin of an angle in the first quadrant, 0..90000 millidegrees, by linear
\* interpolation between whole degrees
sin_quadrant[a \in Int] ==
    LET d == a \div Deg
        f == a % Deg
    IN  IF d >= 90 THEN SinTable[91]
        ELSE SinTable[d + 1] + ((SinTable[d + 2] - SinTable[d + 1]) * f) \div Deg

\* math.sin(radians(a)), a in millidegrees
sin_deg[a \in Int] ==
    LET r == a % (360 * Deg)
    IN  IF r <= 90 * Deg THEN sin_quadrant[r]
        ELSE IF r <= 180 * Deg THEN sin_quadrant[180 * Deg - r]
        ELSE IF r <= 270 * Deg THEN 0 - sin_quadrant[r - 180 * Deg]
        ELSE 0 - sin_quadrant[360 * Deg - r]

\* math.cos(radians(a))
cos_deg[a \in Int] == sin_deg[a + 90 * Deg]

\* math.tan(radians(a)); the angles the model passes have cos # 0
tan_deg[a \in Int] == (sin_deg[a] * Trig) \div cos_deg[a]

\* degrees(math.asin(x)) for x in 0..1
asin_quadrant[x \in Int] ==
    IF x >= Trig THEN 90 * Deg
    ELSE LET d == CHOOSE k \in 0..89 : SinTable[k + 1] <= x /\ x < SinTable[k + 2]
         IN  d * Deg + ((x - SinTable[d + 1]) * Deg)
                           \div (SinTable[d + 2] - SinTable[d + 1])

\* degrees(math.asin(x)): ValueError ("math domain error") outside [-1, 1]
asin_deg[x \in Int] ==
    IF x > Trig \/ x < 0 - Trig THEN Raise("ValueError")
    ELSE IF x >= 0 THEN Ok(asin_quadrant[x])
    ELSE Ok(0 - asin_quadrant[0 - x])

\* degrees(math.acos(x)): ValueError ("math domain error") outside [-1, 1]
acos_deg[x \in Int] ==
    IF x > Trig \/ x < 0 - Trig THEN Raise("ValueError")
    ELSE Ok(90 * Deg - asin_deg[x].v)

(* --------------------- orbital and angular parameters ----------------- *)
JD2000 == 2451545
DaysPerCentury == 36525

\* (julian_day - 2451545.0) / 36525.0, in microcenturies: hundredths of a
\* day since J2000, times 10^6 / (100 * 36525) = 400 / 1461
julian_century(julian_day) ==
    LET n100 == (julian_day.day - JD2000) * 100
                    + (julian_day.sec * 100) \div SecondsPerDay
    IN  (n100 * 400) \div ((DaysPerCentury * 4) \div 100)

\* 280.46646 + jc * (36000.76983 + jc * 0.0003032), mod 360
geom_mean_long_sun[jc \in Int] ==
    LET k == jc \div Deg
        L0 == 280466 + jc * 36 + (jc * 770) \div Micro
                  + (k * k * 3) \div 10^7
    IN  L0 % (360 * Deg)

\* 357.52911 + jc * (35999.05029 - 0.0001537 * jc)
geom_mean_anom_sun[jc \in Int] ==
    LET k == jc \div Deg
    IN  357529 + jc * 36 - (jc * 950) \div Micro - (k * k * 2) \div 10^7

\* 0.016708634 - jc * (0.000042037 + 0.0000001267 * jc), in millionths
eccent_earth_orbit[jc \in Int] ==
    LET k == jc \div Deg
    IN  16709 - ((jc * 42) \div Micro + (k * k) \div 10^7)

\* coefficients in ten-thousandths of a degree
sun_eq_of_center[jc \in Int] ==
    LET m == geom_mean_anom_sun[jc]
        sin_m == sin_deg[m]
        sin_2m == sin_deg[2 * m]
        sin_3m == sin_deg[3 * m]
    IN  (sin_m * (19146 - (jc * 48) \div Micro)
           + sin_2m * (200 - jc \div Micro)
           + sin_3m * 3) \div 10^5

sun_true_long[jc \in Int] ==
    LET L0 == geom_mean_long_sun[jc]
        C == sun_eq_of_center[jc]
    IN  L0 + C

\* 125.04 - 1934.136 * jc
omega_of[jc \in Int] == 125040 - (jc * 1934) \div Deg

\* stl - 0.00569 - 0.00478 * sin(radians(omega))
sun_apparent_long[jc \in Int] ==
    LET stl == sun_true_long[jc]
        omega == omega_of[jc]
    IN  stl - 6 - (478 * sin_deg[omega]) \div Micro

\* seconds in thousandths of an arc second; the terms in jc^2 and jc^3
\* (0.00059, 0.001813) are below that resolution for |jc| < 1
mean_obliq_ecliptic[jc \in Int] ==
    LET seconds == 21448 - (jc * 468) \div 10^4
    IN  23 * Deg + ((26 * 60 * Deg) + seconds) \div 3600

\* e0 + 0.00256 * cos(radians(omega))
obliq_corr[jc \in Int] ==
    LET e0 == mean_obliq_ecliptic[jc]
        omega == omega_of[jc]
    IN  e0 + (256 * cos_deg[omega]) \div Micro

\* tan(radians(e) / 2) ** 2, in millionths
var_y[jc \in Int] ==
    LET e == obliq_corr[jc]
        t == tan_deg[e \div 2]
    IN  (t * t) \div 100

\* degrees(asin(sin(e) * sin(lambda))); |sint| <= 1 always
sun_declination[jc \in Int] ==
    LET e == obliq_corr[jc]
        lambda_sun == sun_apparent_long[jc]
        sint == (sin_deg[e] * sin_deg[lambda_sun]) \div Trig
    IN  asin_deg[sint].v

\* Etime in millionths of a radian; degrees(Etime) * 4.0 = Etime * 229.18
equation_of_time[jc \in Int] ==
    LET y == var_y[jc]
        L0 == geom_mean_long_sun[jc]
        e == eccent_earth_orbit[jc]
        M == geom_mean_anom_sun[jc]
        sin_2L0 == sin_deg[2 * L0]
        sin_M == sin_deg[M]
        cos_2L0 == cos_deg[2 * L0]
        sin_4L0 == sin_deg[4 * L0]
        sin_2M == sin_deg[2 * M]
        Etime == (y * sin_2L0) \div Trig
                   - (2 * e * sin_M) \div Trig
                   + ((((4 * ((e * y) \div Micro)) * sin_M) \div Trig) * cos_2L0)
                         \div Trig
                   - (((y * y) \div Micro) * sin_4L0) \div (2 * Trig)
                   - ((((e * e) \div Micro) * sin_2M) * 5) \div (4 * Trig)
    IN  (Etime * 22918) \div 10^5

(* ---------------------- hour angle and event times -------------------- *)
\* what a call may yield: a number, or one of the exceptions of the arithmetic
Results == [err : {""}, v : Int] \cup [err : {"ValueError", "ZeroDivisionError"}]

\* the argument the code hands to acos:
\*   cos(radians(90 - elevation)) / (cos(lat) * cos(decl)) - tan(lat) * tan(decl)
\* The product of the cosines is never 0.0 in doubles (cos(radians(90)) is
\* 6.1e-17), so the division does not fail: where the fixed-point product is
\* 0 the quotient is taken over the smallest positive denominator, which
\* puts the argument far outside [-1, 1] unless the numerator cancels.
cos_arg[latitude \in Int, jc \in Int, solar_elevation \in Int] ==
    LET den == (cos_deg[latitude] * cos_deg[sun_declination[jc]]) \div Trig
    IN  IF den = 0
        THEN Ok(cos_deg[90 * Deg - solar_elevation] * Trig
                  - sin_deg[latitude] * sin_deg[sun_declination[jc]])
        ELSE Ok((cos_deg[90 * Deg - solar_elevation] * Trig) \div den
                  - (tan_deg[latitude] * tan_deg[sun_declination[jc]]) \div Trig)

\* faulty variant: the argument is clamped to [-1, 1] before acos
acos_of_clamped[arg \in Results] ==
    IF ~IsOk(arg) THEN arg
    ELSE IF arg.v > Trig THEN acos_deg[Trig]
    ELSE IF arg.v < 0 - Trig THEN acos_deg[0 - Trig]
    ELSE acos_deg[arg.v]

hour_angle_clamped(latitude, jc, solar_elevation) ==
    acos_of_clamped[cos_arg[latitude, jc, solar_elevation]]

\* acos of the argument as computed; an exception raised while computing the
\* argument propagates
acos_of[arg \in Results] ==
    IF ~IsOk(arg) THEN arg ELSE acos_deg[arg.v]

\* faulty variant: outside [-1, 1] the sun is taken to be up the whole day
hour_angle_whole_day(latitude, jc, solar_elevation) ==
    IF cos_arg[latitude, jc, solar_elevation].v \in (0 - Trig)..Trig
    THEN acos_of[cos_arg[latitude, jc, solar_elevation]]
    ELSE Ok(180 * Deg)

\* degrees(acos(...)): the argument goes to acos unclamped
hour_angle(latitude, jc, solar_elevation) ==
    acos_of[cos_arg[latitude, jc, solar_elevation]]

\* faulty variant: the offset is added to the minutes, before the division by 60
solar_noon_offset_in_minutes(longitude, timezone_offset, julian_day) ==
    ((720 * Deg - 4 * longitude - equation_of_time[julian_century(julian_day)]
         + timezone_offset * Deg) * (Hour \div Deg)) \div 60

\* (720 - 4.0 * longitude - eq_time) / 60.0 + timezone_offset
solar_noon(longitude, timezone_offset, julian_day) ==
    LET jc == julian_century(julian_day)
        eq_time == equation_of_time[jc]
        solar_noon_utc == ((720 * Deg - 4 * longitude - eq_time) * (Hour \div Deg))
                              \div 60
    IN  solar_noon_utc + timezone_offset * Hour

\* solar_noon_time + sign * ha / 15.0, or the exception hour_angle raised
event_time[ha \in Results, solar_noon_time \in Int, sign \in {0 - 1, 1}] ==
    IF ~IsOk(ha) THEN ha
    ELSE Ok(solar_noon_time + sign * ((ha.v * (Hour \div Deg)) \div 15))

\* solar_noon_time - ha / 15.0
sunrise(latitude, longitude, timezone_offset, julian_day, solar_elevation) ==
    event_time[hour_angle(latitude, julian_century(julian_day), solar_elevation),
               solar_noon(longitude, timezone_offset, julian_day), 0 - 1]

\* faulty variant: sunset subtracts the hour angle, as sunrise does
sunset_before_noon(latitude, longitude, timezone_offset, julian_day, solar_elevation) ==
    event_time[hour_angle(latitude, julian_century(julian_day), solar_elevation),
               solar_noon(longitude, timezone_offset, julian_day), 0 - 1]

\* solar_noon_time + ha / 15.0
sunset(latitude, longitude, timezone_offset, julian_day, solar_elevation) ==
    event_time[hour_angle(latitude, julian_century(julian_day), solar_elevation),
               solar_noon(longitude, timezone_offset, julian_day), 1]

\* twilight_angles, in the dictionary's order
Twilights == <<"official", "civil", "nautical", "astronomical">>

twilight_angles ==
    [official |-> 0 - 833, civil |-> 0 - 6000,
     nautical |-> 0 - 12000, astronomical |-> 0 - 18000]

(* ------------------------------ state --------------------------------- *)
VARIABLES
    jd_in,          \* date_to_julian_day: [target_date, utc_offset]
    jd_out,         \*   its result, or [err |-> exception]
    jd_pc,          \*   "call" before, "done" after
    ev_in,          \* one call of hour_angle, solar_noon, sunrise or sunset:
                    \*   [fn, latitude, longitude, timezone_offset, julian_day,
                    \*    solar_elevation]
    ev_out,         \*   its result, or [err |-> exception]
    ev_pc,          \*   "call" before, "done" after
    y_args,         \* yearly_sun_times_dataframe:
                    \*   [latitude, longitude, timezone_offset, year]
    current_date,   \*   the loop's current_date
    dates,          \*   the list dates
    results,        \*   the dictionary results: column -> list
    y_pc,           \*   "loop", "returned" (the DataFrame) or "raised"
    config,         \* solar_times.main: the loaded configuration
    m_pc,           \*   "loaded", "validated", "exit", "printed" or "traceback"
    m_out,          \*   what main computed: the exit status, the exception or
                    \*   the printed times
    f_in,           \* one call of a decimal_hours_to_time_string:
                    \*   [module, decimal_hours]
    f_out,          \*   what it returned or raised
    f_pc,           \*   "call" before, "done" after
    r_request,      \* yearly_sun_times_dataframe called again and again: the
                    \*   arguments as passed, year a number or None
    r_today,        \*   date.today().year
    r_tables,       \*   request -> what the last call with it returned
    r_phase,        \*   "first", "between" or "again": which call is running
    a_now,          \* from_api: time.time(), in hours
    a_cache,        \*   the cache directory: key -> NoEntry or [mtime, data]
    a_call,         \*   the call: [fn, key, max_retries, use_cache,
                    \*     cache_max_age_hours] and how the API answers: server
    a_before,       \*   the cache directory when the call was made
    a_pc,           \*   "begin", "attempt", "exhausted", "stale", "returned"
                    \*   or "raised"
    a_attempt,      \*   the loop variable attempt
    a_requests,     \*   HTTP requests sent during the call
    a_out,          \*   the DataFrame returned or the exception raised
    a_phase,        \*   "first" or "second": which call is running
    a_log,          \*   the sleeps and the session.get calls of the loop, in order
    q_in,           \* get_sunrise_sunset_year: [year, timezone] and how the API
                    \*   answers: api
    q_requests,     \*   the date ranges requested so far
    q_frames,       \*   the tables received so far
    q_out,          \*   the table returned or the exception raised
    q_pc,           \*   "fetch", "combine", "returned" or "raised"
    d_in,           \* get_sunrise_sunset_year_dual_timezone: [year,
                    \*   summer_timezone, winter_timezone, summer_start_date,
                    \*   winter_start_date] and api
    d_summer,       \*   df_summer
    d_winter,       \*   df_winter
    d_out,          \*   the table returned or the exception raised
    d_pc,           \*   "summer", "winter", "merge", "returned" or "raised"
    t_in,           \* timeutils: the function called and its arguments
    t_out,          \*   what it returned
    t_i,            \*   get_summertime_results: the entries processed so far
    t_rise,         \*   rise_times
    t_set,          \*   set_times
    t_noon,         \*   noon_times
    t_pc            \*   "called", "loop" or "returned"

jd_vars == <<jd_in, jd_out, jd_pc>>
ev_vars == <<ev_in, ev_out, ev_pc>>
y_vars == <<y_args, current_date, dates, results, y_pc>>
m_vars == <<config, m_pc, m_out>>
f_vars == <<f_in, f_out, f_pc>>
\* the variables of the harnesses that follow the first four
r_vars == <<r_request, r_today, r_tables, r_phase>>
a_vars ==
    <<a_now, a_cache, a_call, a_before, a_pc, a_attempt, a_requests, a_out, a_phase,
      a_log>>
q_vars == <<q_in, q_requests, q_frames, q_out, q_pc>>
d_vars == <<d_in, d_summer, d_winter, d_out, d_pc>>
t_vars == <<t_in, t_out, t_i, t_rise, t_set, t_noon, t_pc>>
x_vars == <<f_vars, r_vars, a_vars, q_vars, d_vars, t_vars>>
vars == <<jd_vars, ev_vars, y_vars, m_vars, x_vars>>

\* a part of the state no operation of the specification at hand touches
IdleJD == jd_in = "idle" /\ jd_out = "idle" /\ jd_pc = "idle"
IdleEvent == ev_in = "idle" /\ ev_out = "idle" /\ ev_pc = "idle"
IdleYear ==
    /\ y_args = "idle" /\ current_date = "idle" /\ dates = "idle"
    /\ results = "idle" /\ y_pc = "idle"
IdleMain == config = "idle" /\ m_pc = "idle" /\ m_out = "idle"
IdleFormat == f_in = "idle" /\ f_out = "idle" /\ f_pc = "idle"
IdleRepeat ==
    r_request = "idle" /\ r_today = "idle" /\ r_tables = "idle" /\ r_phase = "idle"
IdleApi ==
    /\ a_now = "idle" /\ a_cache = "idle" /\ a_call = "idle" /\ a_before = "idle"
    /\ a_pc = "idle" /\ a_attempt = "idle" /\ a_requests = "idle"
    /\ a_out = "idle" /\ a_phase = "idle" /\ a_log = "idle"
IdleYearApi ==
    /\ q_in = "idle" /\ q_requests = "idle" /\ q_frames = "idle"
    /\ q_out = "idle" /\ q_pc = "idle"
IdleDual ==
    /\ d_in = "idle" /\ d_summer = "idle" /\ d_winter = "idle"
    /\ d_out = "idle" /\ d_pc = "idle"
IdleTime ==
    /\ t_in = "idle" /\ t_out = "idle" /\ t_i = "idle" /\ t_rise = "idle"
    /\ t_set = "idle" /\ t_noon = "idle" /\ t_pc = "idle"
IdleX == IdleFormat /\ IdleRepeat /\ IdleApi /\ IdleYearApi /\ IdleDual /\ IdleTime

(* -------------------- date_to_julian_day, applied --------------------- *)
MinOffset == -12
MaxOffset == 14
Offsets == MinOffset..MaxOffset

JDYears == (2000 - YearSpan)..(2000 + YearSpan)
\* month and day fields a string may carry, in and out of range
StrMonths == 0..13
StrDays == {0, 1, 15, 28, 29, 30, 31, 32}
Times == {<<0, 0, 0>>, <<11, 30, 0>>, <<12, 0, 0>>, <<23, 59, 59>>}

\* strings hold any fields; date and datetime objects exist only for real dates
TargetDates ==
    {[kind |-> "str10", y |-> y, m |-> m, d |-> d] :
        y \in JDYears, m \in StrMonths, d \in StrDays}
    \cup
    {[kind |-> "str", y |-> y, m |-> m, d |-> d,
      hh |-> t[1], mi |-> t[2], ss |-> t[3]] :
        y \in JDYears, m \in StrMonths, d \in StrDays, t \in Times}
    \cup
    {[kind |-> "date", y |-> c[1], m |-> c[2], d |-> c[3]] :
        c \in {x \in JDYears \X StrMonths \X StrDays : valid_date(x[1], x[2], x[3])}}
    \cup
    {[kind |-> "datetime", y |-> c[1], m |-> c[2], d |-> c[3],
      hh |-> t[1], mi |-> t[2], ss |-> t[3]] :
        c \in {x \in JDYears \X StrMonths \X StrDays : valid_date(x[1], x[2], x[3])},
        t \in Times}

InitJD ==
    /\ jd_in \in [target_date : TargetDates, utc_offset : Offsets]
    /\ jd_out = "none"
    /\ jd_pc = "call"
    /\ IdleEvent /\ IdleYear /\ IdleMain /\ IdleX

CallDateToJulianDay ==
    /\ jd_pc = "call"
    /\ jd_out' = date_to_julian_day(jd_in.target_date, jd_in.utc_offset)
    /\ jd_pc' = "done"
    /\ UNCHANGED <<jd_in, ev_vars, y_vars, m_vars, x_vars>>

NextJD == CallDateToJulianDay

SpecJD == InitJD /\ [][NextJD]_vars

(* ======================= claims: date_to_julian_day =================== *)
\* a Julian Day in seconds since J2000.0
JDSeconds(jd) == (jd.day - JD2000) * SecondsPerDay + jd.sec

\* month or day out of range, stated from the calendar and not from the parser
OutOfRangeDate(y, m, d) ==
    \/ m < 1 \/ m > 12
    \/ d < 1 \/ d > 31
    \/ (m \in {4, 6, 9, 11} /\ d = 31)
    \/ (m = 2 /\ d >= 30)
    \/ (m = 2 /\ d = 29 /\ ~((y % 4 = 0 /\ y % 100 # 0) \/ y % 400 = 0))

\* C6: date_to_julian_day given a date whose month or day is out of range
\* (month 13, day 32, February 30, February 29 of a non-leap year) fails with
\* an error and returns no Julian Day.
C6_InvalidDateFails ==
    (jd_pc = "done"
        /\ OutOfRangeDate(jd_in.target_date.y, jd_in.target_date.m,
                          jd_in.target_date.d))
    => (jd_out.err = "ValueError" /\ "v" \notin DOMAIN jd_out)

\* February 29 of a non-leap year has been refused
C6_Witness ==
    /\ jd_pc = "done"
    /\ jd_in.target_date.m = 2 /\ jd_in.target_date.d = 29
    /\ jd_in.target_date.y % 4 # 0
    /\ jd_out.err = "ValueError"

IsEpochNoon(td) ==
    /\ td.kind \in {"str", "datetime"}
    /\ td.y = 2000 /\ td.m = 1 /\ td.d = 1
    /\ td.hh = 12 /\ td.mi = 0 /\ td.ss = 0

\* C7: date_to_julian_day for 2000-01-01T12:00:00 with UTC offset 0 returns
\* exactly 2451545.0, and julian_century of that result is 0.
C7_EpochIsJ2000 ==
    (jd_pc = "done" /\ IsEpochNoon(jd_in.target_date) /\ jd_in.utc_offset = 0)
    => /\ jd_out = Ok([day |-> 2451545, sec |-> 0])
       /\ julian_century(jd_out.v) = 0

C7_Witness ==
    /\ jd_pc = "done" /\ IsEpochNoon(jd_in.target_date) /\ jd_in.utc_offset = 0
    /\ IsOk(jd_out) /\ jd_out.v.day = 2451545

\* C8: for any local date and time and any whole-hour UTC offset in [-12, 14],
\* date_to_julian_day(local, offset) equals date_to_julian_day(local, 0) minus
\* offset/24 days, also when the UTC instant falls in another day, month or year.
C8_OffsetShiftsJulianDay ==
    (jd_pc = "done" /\ IsOk(jd_out))
    => JDSeconds(jd_out.v)
         = JDSeconds(date_to_julian_day(jd_in.target_date, 0).v)
             - jd_in.utc_offset * 3600

\* the UTC instant fell in another calendar year than the local one
C8_Witness ==
    /\ jd_pc = "done" /\ IsOk(jd_out)
    /\ jd_in.utc_offset # 0
    /\ sub_hours(to_datetime(jd_in.target_date).v, jd_in.utc_offset).y
         # jd_in.target_date.y

WithTime(td, hh, mi, ss) ==
    [kind |-> IF td.kind = "str10" THEN "str" ELSE "datetime",
     y |-> td.y, m |-> td.m, d |-> td.d, hh |-> hh, mi |-> mi, ss |-> ss]

\* C9: with no time of day (a 10-character date string or a date object) the
\* result is that of the same date at 12:00:00 with the same offset; an
\* explicit time is used as given, never replaced by the default.
C9_DefaultsToNoon ==
    jd_pc = "done" =>
      /\ jd_in.target_date.kind \in {"str10", "date"}
           => jd_out = date_to_julian_day(WithTime(jd_in.target_date, 12, 0, 0),
                                          jd_in.utc_offset)
      /\ (jd_in.target_date.kind \in {"str", "datetime"} /\ IsOk(jd_out))
           => JDSeconds(jd_out.v)
                = (jd_date(jd_in.target_date.y, jd_in.target_date.m,
                           jd_in.target_date.d) - JD2000) * SecondsPerDay
                  + jd_in.target_date.hh * 3600 + jd_in.target_date.mi * 60
                  + jd_in.target_date.ss
                  - 12 * 3600 - jd_in.utc_offset * 3600

\* a date object has been converted, to a Julian Day whose UTC time of day is
\* noon minus the offset
C9_Witness ==
    /\ jd_pc = "done" /\ IsOk(jd_out)
    /\ jd_in.target_date.kind = "date"
    /\ jd_in.utc_offset = 0 - 3
    /\ jd_out.v.sec = 3 * 3600

(* ------------- hour_angle, solar_noon, sunrise, sunset, applied -------- *)
\* the calls are made for every 7th day from January 1 of EvYear
EvYear == 2024
EvSamples == 53

\* latitudes in [-90, 90]; the poles themselves are left out, where the
\* fixed-point cosine is 0 and the double is 6.1e-17
EvLatitudes == {0 - 78223, 0 - 34612, 0, 40713, 78223}
\* (longitude, timezone_offset): Buenos Aires, Longyearbyen
EvPlaces == {<<0 - 58396, 0 - 3>>, <<15650, 1>>}
EvFunctions == {"hour_angle", "solar_noon", "sunrise", "sunset"}
EvElevations == {twilight_angles[Twilights[i]] : i \in 1..Len(Twilights)}

EvJulianDays ==
    {date_to_julian_day(
         [kind |-> "date", y |-> EvYear, m |-> 1, d |-> 1], 0).v.day + 7 * k :
       k \in 0..(EvSamples - 1)}

InitEvent ==
    /\ \E fn \in EvFunctions, lat \in EvLatitudes, place \in EvPlaces,
          day \in EvJulianDays, elevation \in EvElevations :
         ev_in = [fn |-> fn, latitude |-> lat, longitude |-> place[1],
                  timezone_offset |-> place[2],
                  julian_day |-> [day |-> day, sec |-> 0],
                  solar_elevation |-> elevation]
    /\ ev_out = "none"
    /\ ev_pc = "call"
    /\ IdleJD /\ IdleYear /\ IdleMain /\ IdleX

CallHourAngle ==
    /\ ev_pc = "call" /\ ev_in.fn = "hour_angle"
    /\ ev_out' = hour_angle(ev_in.latitude, julian_century(ev_in.julian_day),
                            ev_in.solar_elevation)
    /\ ev_pc' = "done"
    /\ UNCHANGED <<ev_in, jd_vars, y_vars, m_vars, x_vars>>

CallSolarNoon ==
    /\ ev_pc = "call" /\ ev_in.fn = "solar_noon"
    /\ ev_out' = Ok(solar_noon(ev_in.longitude, ev_in.timezone_offset,
                               ev_in.julian_day))
    /\ ev_pc' = "done"
    /\ UNCHANGED <<ev_in, jd_vars, y_vars, m_vars, x_vars>>

CallSunrise ==
    /\ ev_pc = "call" /\ ev_in.fn = "sunrise"
    /\ ev_out' = sunrise(ev_in.latitude, ev_in.longitude, ev_in.timezone_offset,
                         ev_in.julian_day, ev_in.solar_elevation)
    /\ ev_pc' = "done"
    /\ UNCHANGED <<ev_in, jd_vars, y_vars, m_vars, x_vars>>

CallSunset ==
    /\ ev_pc = "call" /\ ev_in.fn = "sunset"
    /\ ev_out' = sunset(ev_in.latitude, ev_in.longitude, ev_in.timezone_offset,
                        ev_in.julian_day, ev_in.solar_elevation)
    /\ ev_pc' = "done"
    /\ UNCHANGED <<ev_in, jd_vars, y_vars, m_vars, x_vars>>

NextEvent == CallHourAngle \/ CallSolarNoon \/ CallSunrise \/ CallSunset

SpecEvent == InitEvent /\ [][NextEvent]_vars

(* ================= claims: hour_angle and solar_noon ================== *)
HourAngleCalled == ev_pc = "done" /\ ev_in.fn = "hour_angle"

\* C1, as stated: hour_angle clamps the arccosine argument to [-1, 1], so for
\* every latitude in [-90, 90], every Julian century and every threshold it
\* returns a value in [0, 180] degrees and never fails.
C1_AlwaysInRange ==
    HourAngleCalled => (IsOk(ev_out) /\ ev_out.v >= 0 /\ ev_out.v <= 180 * Deg)

\* C1, amended: hour_angle does not clamp. It returns a value in [0, 180]
\* degrees exactly when the arccosine argument lies in [-1, 1]; when the
\* argument is outside [-1, 1] it fails with ValueError (math domain error).
C1_RangeIffArgumentInDomain ==
    HourAngleCalled =>
      LET arg == cos_arg[ev_in.latitude, julian_century(ev_in.julian_day),
                         ev_in.solar_elevation]
      IN  /\ IsOk(arg)
          /\ (arg.v >= 0 - Trig /\ arg.v <= Trig)
                => (IsOk(ev_out) /\ ev_out.v >= 0 /\ ev_out.v <= 180 * Deg)
          /\ (arg.v < 0 - Trig \/ arg.v > Trig)
                => (ev_out.err = "ValueError" /\ "v" \notin DOMAIN ev_out)

\* midnight sun: the argument is below -1 and the call has failed
C1_Witness ==
    /\ HourAngleCalled
    /\ cos_arg[ev_in.latitude, julian_century(ev_in.julian_day),
               ev_in.solar_elevation].v < 0 - Trig
    /\ ev_out.err = "ValueError"

\* C10: solar_noon(longitude, offset, julian_day) =
\* (720 - 4*longitude - equation_of_time(julian_century(julian_day))) / 60
\* + offset: the offset is added in hours, after the division by 60, and
\* neither the latitude nor the elevation threshold enters the result.
C10_SolarNoonFormula ==
    (ev_pc = "done" /\ ev_in.fn = "solar_noon") =>
      /\ IsOk(ev_out)
      /\ ev_out.v
           = ((720 * 1000 - 4 * ev_in.longitude
                 - equation_of_time[julian_century(ev_in.julian_day)]) * 100)
                 \div 60
             + ev_in.timezone_offset * 100000

\* solar noon in Buenos Aires at UTC-3 falls between 12:30 and 13:30
C10_Witness ==
    /\ ev_pc = "done" /\ ev_in.fn = "solar_noon"
    /\ ev_in.timezone_offset = 0 - 3
    /\ ev_out.v > 1250000 /\ ev_out.v < 1350000

\* the hour angle and the solar noon of the call in ev_in
EvHourAngle ==
    hour_angle(ev_in.latitude, julian_century(ev_in.julian_day),
               ev_in.solar_elevation)
EvSolarNoon ==
    solar_noon(ev_in.longitude, ev_in.timezone_offset, ev_in.julian_day)

\* C11: whenever the hour angle is defined (and it is for every date at
\* latitude 0), sunrise and sunset are symmetric around solar noon:
\* solar_noon - sunrise = sunset - solar_noon = hour_angle / 15.
C11_SymmetricAroundNoon ==
    (ev_pc = "done" /\ ev_in.fn \in {"sunrise", "sunset"}) =>
      /\ ev_in.latitude = 0 => IsOk(EvHourAngle)
      /\ IsOk(ev_out) <=> IsOk(EvHourAngle)
      /\ IsOk(ev_out) =>
            LET half_day == (EvHourAngle.v * (Hour \div Deg)) \div 15
            IN  /\ ev_in.fn = "sunrise" => EvSolarNoon - ev_out.v = half_day
                /\ ev_in.fn = "sunset" => ev_out.v - EvSolarNoon = half_day
                /\ EvSolarNoon
                      - sunrise(ev_in.latitude, ev_in.longitude,
                                ev_in.timezone_offset, ev_in.julian_day,
                                ev_in.solar_elevation).v
                    = sunset(ev_in.latitude, ev_in.longitude,
                             ev_in.timezone_offset, ev_in.julian_day,
                             ev_in.solar_elevation).v
                      - EvSolarNoon

\* a sunset at the equator, about six hours after solar noon
C11_Witness ==
    /\ ev_pc = "done" /\ ev_in.fn = "sunset" /\ ev_in.latitude = 0
    /\ IsOk(ev_out)
    /\ ev_out.v - EvSolarNoon > 5 * Hour
    /\ ev_out.v - EvSolarNoon < 7 * Hour

(* -------------------- yearly_sun_times_dataframe ---------------------- *)
\* a list entry: a float, or None
Some(v) == [some |-> TRUE, v |-> v]
None == [some |-> FALSE]
Cells == {None} \cup [some : {TRUE}, v : Int]
\* float("nan"), what a None of a numeric column is once in a DataFrame
NaN == [nan |-> TRUE]
FloatCells == Cells \cup {NaN}

TwilightSet == {Twilights[i] : i \in 1..Len(Twilights)}
\* the keys f"{twilight}_sunrise" and f"{twilight}_sunset" of results
Columns == TwilightSet \X {"sunrise", "sunset"}

\* faulty variant: only ZeroDivisionError is caught
CaughtExceptions_without_ValueError == {"ZeroDivisionError"}

\* faulty variant: the try block catches nothing
CaughtExceptions_none == {}

\* except (ValueError, ZeroDivisionError)
CaughtExceptions == {"ValueError", "ZeroDivisionError"}

\* the try block of one twilight definition, given what sunrise() and
\* sunset() yield: both values are appended, or the exception is caught and
\* None is appended twice, or the exception escapes and nothing is appended
try_twilight[sunrise_time \in Results, sunset_time \in Results] ==
    IF IsOk(sunrise_time) /\ IsOk(sunset_time)
    THEN [escaped |-> "", sunrise |-> Some(sunrise_time.v),
          sunset |-> Some(sunset_time.v)]
    ELSE LET exception == IF ~IsOk(sunrise_time) THEN sunrise_time.err
                          ELSE sunset_time.err
         IN  IF exception \in CaughtExceptions
             THEN [escaped |-> "", sunrise |-> None, sunset |-> None]
             ELSE [escaped |-> exception, sunrise |-> None, sunset |-> None]

\* one pass of the for loop over twilight_angles, for one day
twilight_pass(latitude, longitude, timezone_offset, julian_day, twilight) ==
    try_twilight[
        sunrise(latitude, longitude, timezone_offset, julian_day,
                twilight_angles[twilight]),
        sunset(latitude, longitude, timezone_offset, julian_day,
               twilight_angles[twilight])]

\* the four passes of one day, in the dictionary's order
day_passes(latitude, longitude, timezone_offset, julian_day) ==
    <<twilight_pass(latitude, longitude, timezone_offset, julian_day, Twilights[1]),
      twilight_pass(latitude, longitude, timezone_offset, julian_day, Twilights[2]),
      twilight_pass(latitude, longitude, timezone_offset, julian_day, Twilights[3]),
      twilight_pass(latitude, longitude, timezone_offset, julian_day, Twilights[4])>>

TwilightIndex(twilight) == CHOOSE i \in 1..Len(Twilights) : Twilights[i] = twilight

\* the first pass whose exception escaped, or Len + 1 when none did
FirstEscaped(passes) ==
    IF \E i \in 1..Len(passes) : passes[i].escaped # ""
    THEN CHOOSE i \in 1..Len(passes) :
            /\ passes[i].escaped # ""
            /\ \A j \in 1..(i - 1) : passes[j].escaped = ""
    ELSE Len(passes) + 1

\* faulty variant: the loop runs while current_date < end_date
date_lt(a, b) ==
    \/ a.y < b.y
    \/ (a.y = b.y /\ a.m < b.m)
    \/ (a.y = b.y /\ a.m = b.m /\ a.d < b.d)

\* date <= date
date_le(a, b) ==
    \/ a.y < b.y
    \/ (a.y = b.y /\ a.m < b.m)
    \/ (a.y = b.y /\ a.m = b.m /\ a.d <= b.d)

DateOf(y, m, d) == [kind |-> "date", y |-> y, m |-> m, d |-> d]

\* (latitude, longitude, timezone_offset): Buenos Aires; Longyearbyen;
\* a latitude and a longitude outside their ranges
SweepPlaces ==
    {<<0 - 34612, 0 - 58396, 0 - 3>>, <<78223, 15650, 1>>,
     <<95000, 0, 0>>, <<0, 200000, 0>>}
SweepYears == 2023..(2023 + SweepYearCount - 1)

\* after lines 232-254: the year is set, the lists are empty
InitYear ==
    /\ \E place \in SweepPlaces, year \in SweepYears :
         /\ y_args = [latitude |-> place[1], longitude |-> place[2],
                      timezone_offset |-> place[3], year |-> year]
         /\ current_date = DateOf(year, 1, 1)
    /\ dates = <<>>
    /\ results = [c \in Columns |-> <<>>]
    /\ y_pc = "loop"
    /\ IdleJD /\ IdleEvent /\ IdleMain /\ IdleX

end_date == DateOf(y_args.year, 12, 31)

\* one iteration of while current_date <= end_date
SweepDay ==
    /\ y_pc = "loop"
    /\ date_le(current_date, end_date)
    /\ dates' = Append(dates, current_date)
    /\ \E passes \in
           {day_passes(y_args.latitude, y_args.longitude, y_args.timezone_offset,
                       date_to_julian_day(current_date, y_args.timezone_offset).v)} :
         /\ results' =
              [c \in Columns |->
                 IF TwilightIndex(c[1]) < FirstEscaped(passes)
                 THEN Append(results[c], passes[TwilightIndex(c[1])][c[2]])
                 ELSE results[c]]
         /\ IF FirstEscaped(passes) > Len(passes)
            THEN y_pc' = "loop" /\ current_date' = next_day(current_date)
            ELSE y_pc' = "raised" /\ current_date' = current_date
    /\ UNCHANGED <<y_args, jd_vars, ev_vars, m_vars, x_vars>>

\* the loop has ended: pd.DataFrame(data), which wants columns of one length
SweepReturn ==
    /\ y_pc = "loop"
    /\ ~date_le(current_date, end_date)
    /\ y_pc' = IF \A c \in Columns : Len(results[c]) = Len(dates)
               THEN "returned" ELSE "raised"
    /\ UNCHANGED <<y_args, current_date, dates, results, jd_vars, ev_vars, m_vars, x_vars>>

NextYear == SweepDay \/ SweepReturn

SpecYear == InitYear /\ [][NextYear]_vars

(* ---------------------------- solar_times.py -------------------------- *)
\* int(x / unit): truncation toward zero
trunc_div[x \in Int, unit \in Int] ==
    IF x >= 0 THEN x \div unit ELSE 0 - ((0 - x) \div unit)

\* solar_times.decimal_hours_to_time_string: the text "N/A", or the three
\* fields of f"{hours:02d}:{minutes:02d}:{seconds:02d}"; int(nan) raises
\* ValueError
st_decimal_hours_to_time_string[decimal_hours \in FloatCells] ==
    IF decimal_hours = None THEN [text |-> "N/A"]
    ELSE IF decimal_hours = NaN THEN Raise("ValueError")
    ELSE LET whole == trunc_div[decimal_hours.v, Hour]
             hours == whole % 24
             fraction == decimal_hours.v - whole * Hour
             minutes == trunc_div[fraction * 60, Hour]
             seconds == trunc_div[(fraction * 60 - minutes * Hour) * 60, Hour]
         IN  [text |-> "HH:MM:SS", hours |-> hours, minutes |-> minutes,
              seconds |-> seconds]

\* solar_times.date_to_julian_day, the copy main calls
st_date_to_julian_day(target_date, utc_offset) ==
    LET target_datetime == to_datetime(target_date)
    IN  IF ~IsOk(target_datetime) THEN target_datetime
        ELSE Ok(julian_day_value(sub_hours(target_datetime.v, utc_offset)))

\* validate_config: "" when it returns, or the message printed before
\* sys.exit(1).  A config is a record; a missing key is a missing field; date
\* is the fields of a "YYYY-MM-DD" text and time those of "HH:MM:SS"
RequiredFields == {"date", "utc_offset", "latitude", "longitude"}

\* strptime(time, "%H:%M:%S"), and on ValueError strptime(time, "%H:%M"):
\* a time is the fields hh, mi, ss of "HH:MM:SS" or hh, mi of "HH:MM"
time_seconds(time) == IF "ss" \in DOMAIN time THEN time.ss ELSE 0

\* faulty variant: the ranges exclude their ends
validate_config_exclusive_bounds(cfg) ==
    IF ~(RequiredFields \subseteq DOMAIN cfg)
    THEN "Error: Missing required field in configuration."
    ELSE IF ~(0 - 90 * Deg < cfg.latitude /\ cfg.latitude < 90 * Deg)
    THEN "Error: Latitude must be between -90 and 90 degrees."
    ELSE IF ~(0 - 180 * Deg < cfg.longitude /\ cfg.longitude < 180 * Deg)
    THEN "Error: Longitude must be between -180 and 180 degrees."
    ELSE IF ~(MinOffset < cfg.utc_offset /\ cfg.utc_offset < MaxOffset)
    THEN "Error: UTC offset must be between -12 and +14 hours."
    ELSE IF ~IsOk(fromisoformat(cfg.date.y, cfg.date.m, cfg.date.d, 0, 0, 0))
    THEN "Error: Date must be in YYYY-MM-DD format."
    ELSE IF "time" \in DOMAIN cfg
            /\ ~valid_time(cfg.time.hh, cfg.time.mi, time_seconds(cfg.time))
    THEN "Error: Time must be in HH:MM:SS or HH:MM format."
    ELSE ""

validate_config(cfg) ==
    IF ~(RequiredFields \subseteq DOMAIN cfg)
    THEN "Error: Missing required field in configuration."
    ELSE IF ~(0 - 90 * Deg <= cfg.latitude /\ cfg.latitude <= 90 * Deg)
    THEN "Error: Latitude must be between -90 and 90 degrees."
    ELSE IF ~(0 - 180 * Deg <= cfg.longitude /\ cfg.longitude <= 180 * Deg)
    THEN "Error: Longitude must be between -180 and 180 degrees."
    ELSE IF ~(MinOffset <= cfg.utc_offset /\ cfg.utc_offset <= MaxOffset)
    THEN "Error: UTC offset must be between -12 and +14 hours."
    ELSE IF ~IsOk(fromisoformat(cfg.date.y, cfg.date.m, cfg.date.d, 0, 0, 0))
    THEN "Error: Date must be in YYYY-MM-DD format."
    ELSE IF "time" \in DOMAIN cfg
            /\ ~valid_time(cfg.time.hh, cfg.time.mi, time_seconds(cfg.time))
    THEN "Error: Time must be in HH:MM:SS or HH:MM format."
    ELSE ""

\* f"{target_date}T{target_time}", target_time defaulting to "12:00:00"
datetime_str(cfg) ==
    IF "time" \in DOMAIN cfg
    THEN [kind |-> "str", y |-> cfg.date.y, m |-> cfg.date.m, d |-> cfg.date.d,
          hh |-> cfg.time.hh, mi |-> cfg.time.mi,
          ss |-> time_seconds(cfg.time)]
    ELSE [kind |-> "str", y |-> cfg.date.y, m |-> cfg.date.m, d |-> cfg.date.d,
          hh |-> NoonHour, mi |-> 0, ss |-> 0]

\* what date_to_julian_day may yield
JulianDayResults == [err : {""}, v : [day : Int, sec : Int]] \cup [err : {"ValueError"}]

\* the fields of the configuration the calculation reads
Coordinates == [latitude : Int, longitude : Int, utc_offset : Int]

\* the elevation main passes to hour_angle, and the default of sunrise/sunset
OfficialElevation == 0 - 833

\* main from line 154 on, given the Julian Day and the hour angle it
\* computed: an exception of either ends main with a traceback; otherwise
\* the three times are formatted and printed
main_report[cfg \in Coordinates, julian_day \in JulianDayResults, hour_angle_value \in Results] ==
    IF ~IsOk(julian_day) THEN [pc |-> "traceback", exception |-> julian_day.err]
    ELSE IF ~IsOk(hour_angle_value)
    THEN [pc |-> "traceback", exception |-> hour_angle_value.err]
    ELSE LET sunrise_time == sunrise(cfg.latitude, cfg.longitude, cfg.utc_offset,
                                     julian_day.v, OfficialElevation)
             sunset_time == sunset(cfg.latitude, cfg.longitude, cfg.utc_offset,
                                   julian_day.v, OfficialElevation)
             noon_time == solar_noon(cfg.longitude, cfg.utc_offset, julian_day.v)
         IN  [pc |-> "printed",
              sunrise_str |-> st_decimal_hours_to_time_string[Some(sunrise_time.v)],
              noon_str |-> st_decimal_hours_to_time_string[Some(noon_time)],
              sunset_str |-> st_decimal_hours_to_time_string[Some(sunset_time.v)]]

main_calculate(cfg) ==
    main_report[
        [latitude |-> cfg.latitude, longitude |-> cfg.longitude,
         utc_offset |-> cfg.utc_offset],
        st_date_to_julian_day(datetime_str(cfg), cfg.utc_offset),
        IF IsOk(st_date_to_julian_day(datetime_str(cfg), cfg.utc_offset))
        THEN hour_angle(cfg.latitude,
                 julian_century(
                     st_date_to_julian_day(datetime_str(cfg), cfg.utc_offset).v),
                 OfficialElevation)
        ELSE Raise("ValueError")]

\* the configurations main is run on
MainDates ==
    {[y |-> 2024, m |-> 1, d |-> 1], [y |-> 2024, m |-> 6, d |-> 21],
     [y |-> 2024, m |-> 2, d |-> 30], [y |-> 2023, m |-> 12, d |-> 21]}
MainTimes ==
    {[hh |-> 6, mi |-> 30, ss |-> 0], [hh |-> 25, mi |-> 0, ss |-> 0],
     [hh |-> 18, mi |-> 45]}
MainOffsets == {MinOffset - 1, MinOffset, 0 - 3, 1, MaxOffset, MaxOffset + 1}
MainLatitudes == {0 - 90001, 0 - 90000, 0 - 34612, 78223, 90000, 95000}
MainLongitudes == {0 - 180001, 0 - 180000, 0 - 58396, 15650, 180000, 200000}

CompleteConfigs ==
    [date : MainDates, utc_offset : MainOffsets, latitude : MainLatitudes,
     longitude : MainLongitudes]
    \cup
    [date : MainDates, time : MainTimes, utc_offset : MainOffsets,
     latitude : MainLatitudes, longitude : MainLongitudes]

\* a configuration in range, and the same with one required key left out
BuenosAires ==
    [date |-> [y |-> 2024, m |-> 6, d |-> 21], utc_offset |-> 0 - 3,
     latitude |-> 0 - 34612, longitude |-> 0 - 58396]
Without(cfg, field) == [k \in (DOMAIN cfg) \ {field} |-> cfg[k]]

Configs ==
    CompleteConfigs \cup {Without(BuenosAires, field) : field \in RequiredFields}

\* after load_config
InitMain ==
    /\ config \in Configs
    /\ m_pc = "loaded"
    /\ m_out = "none"
    /\ IdleJD /\ IdleEvent /\ IdleYear /\ IdleX

\* validate_config(config): returns, or prints and exits with status 1
MainValidate ==
    /\ m_pc = "loaded"
    /\ IF validate_config(config) = ""
       THEN m_pc' = "validated" /\ m_out' = m_out
       ELSE m_pc' = "exit"
            /\ m_out' = [status |-> 1, message |-> validate_config(config)]
    /\ UNCHANGED <<config, jd_vars, ev_vars, y_vars, x_vars>>

\* the rest of main: the calculation, the formatting, the printing
MainCalculate ==
    /\ m_pc = "validated"
    /\ \E report \in {main_calculate(config)} :
         /\ m_pc' = report.pc
         /\ m_out' = report
    /\ UNCHANGED <<config, jd_vars, ev_vars, y_vars, x_vars>>

NextMain == MainValidate \/ MainCalculate

SpecMain == InitMain /\ [][NextMain]_vars

(* ================ claims: yearly_sun_times_dataframe ================== *)
\* hour_angle for row i of the table and one twilight definition
RowHourAngle(i, twilight) ==
    hour_angle(y_args.latitude,
               julian_century(
                   date_to_julian_day(dates[i], y_args.timezone_offset).v),
               twilight_angles[twilight])

DaysOfYear(year) ==
    IF (year % 4 = 0 /\ year % 100 # 0) \/ year % 400 = 0 THEN 366 ELSE 365

\* C2: when the hour-angle computation is undefined for a (day, threshold)
\* cell, the cell is recorded as None and the sweep continues: the call
\* returns a complete table, with a value or None in every cell of every day
\* of the year, and no error reaches the caller.
C2_UndefinedCellsAreNone ==
    /\ y_pc # "raised"
    /\ y_pc = "returned" =>
         /\ Len(dates) = DaysOfYear(y_args.year)
         /\ \A c \in Columns : Len(results[c]) = Len(dates)
         /\ \A i \in 1..Len(dates), tw \in TwilightSet :
              IF IsOk(RowHourAngle(i, tw))
              THEN results[<<tw, "sunrise">>][i].some
                     /\ results[<<tw, "sunset">>][i].some
              ELSE results[<<tw, "sunrise">>][i] = None
                     /\ results[<<tw, "sunset">>][i] = None

\* a table was returned that holds a None and a number in one column
C2_Witness ==
    /\ y_pc = "returned"
    /\ \E i, j \in 1..Len(dates) :
         /\ results[<<"official", "sunset">>][i] = None
         /\ results[<<"official", "sunset">>][j].some

\* C4: one record per calendar day of the year, in chronological order: the
\* first date is January 1, the last December 31, each date is the previous
\* one plus one day, and there are 366 (with February 29) in a leap year and
\* 365 otherwise.
C4_OneRecordPerDay ==
    y_pc = "returned" =>
      /\ Len(dates) = DaysOfYear(y_args.year)
      /\ dates[1] = DateOf(y_args.year, 1, 1)
      /\ dates[Len(dates)] = DateOf(y_args.year, 12, 31)
      /\ \A i \in 1..(Len(dates) - 1) :
           jd_date(dates[i + 1].y, dates[i + 1].m, dates[i + 1].d)
             = jd_date(dates[i].y, dates[i].m, dates[i].d) + 1
      /\ (DaysOfYear(y_args.year) = 366)
           <=> (\E i \in 1..Len(dates) : dates[i].m = 2 /\ dates[i].d = 29)

\* the sweep of 2024 returned 366 records, February 29 among them
C4_Witness ==
    /\ y_pc = "returned"
    /\ y_args.year = 2024
    /\ Len(dates) = 366
    /\ dates[60] = DateOf(2024, 2, 29)

InvalidCoordinates(latitude, longitude) ==
    \/ latitude < 0 - 90 * 1000 \/ latitude > 90 * 1000
    \/ longitude < 0 - 180 * 1000 \/ longitude > 180 * 1000

\* C5, for the yearly sweep: a latitude outside [-90, 90] or a longitude
\* outside [-180, 180] is rejected before any trigonometric evaluation: no
\* day is computed and no table is returned for such coordinates.
C5_SweepRejectsInvalidCoordinates ==
    InvalidCoordinates(y_args.latitude, y_args.longitude)
    => (dates = <<>> /\ y_pc # "returned")

\* the arccosine argument of hour_angle for row i and a threshold, times Trig
RowCosArg(i, twilight) ==
    cos_arg[y_args.latitude,
            julian_century(
                date_to_julian_day(dates[i], y_args.timezone_offset).v),
            twilight_angles[twilight]].v

\* the sun stays above the threshold (argument < -1) or below it (> 1)
NoCrossing(i, twilight) ==
    RowCosArg(i, twilight) < 0 - Trig \/ RowCosArg(i, twilight) > Trig

\* C22: in the sweep of the polar latitude 78.2232, for the day just
\* processed and, once the table is returned, for every day: when the
\* arccosine argument of a threshold is below -1 (midnight sun) or above 1
\* (polar night) the sunset cell of that threshold is None, not a number,
\* and no exception ends the sweep.
C22_PolarSunsetCellsAbsent ==
    y_args.latitude = 78223 =>
      /\ y_pc # "raised"
      /\ \A tw \in TwilightSet :
           /\ (Len(dates) > 0 /\ NoCrossing(Len(dates), tw))
                => /\ Len(results[<<tw, "sunset">>]) = Len(dates)
                   /\ results[<<tw, "sunset">>][Len(dates)] = None
           /\ y_pc = "returned"
                => \A i \in 1..Len(dates) :
                      NoCrossing(i, tw) => results[<<tw, "sunset">>][i] = None

\* the table of Longyearbyen was returned with a day of midnight sun and a
\* day of polar night, the official sunset absent on both
C22_Witness ==
    /\ y_pc = "returned"
    /\ y_args.latitude = 78223
    /\ \E i, j \in 1..Len(dates) :
         /\ RowCosArg(i, "official") < 0 - Trig
         /\ RowCosArg(j, "official") > Trig
         /\ results[<<"official", "sunset">>][i] = None
         /\ results[<<"official", "sunset">>][j] = None

\* C26: after each day of the sweep every one of the eight result lists
\* has as many entries as the dates list, whether the day's values were
\* computed or the exception was caught, and the entries of the last row
\* are those computed for the last date.
C26_ColumnsAlignedWithDates ==
    /\ y_pc # "raised"
    /\ \A c \in Columns : Len(results[c]) = Len(dates)
    /\ Len(dates) > 0 =>
         \A tw \in TwilightSet :
            LET pass == twilight_pass(
                            y_args.latitude, y_args.longitude, y_args.timezone_offset,
                            date_to_julian_day(dates[Len(dates)],
                                               y_args.timezone_offset).v, tw)
            IN  /\ results[<<tw, "sunrise">>][Len(dates)] = pass.sunrise
                /\ results[<<tw, "sunset">>][Len(dates)] = pass.sunset

\* in the middle of a sweep a day whose exception was caught and a day with
\* values have been processed, and all nine lists have one length
C26_Witness ==
    /\ y_pc = "loop"
    /\ Len(dates) \in 2..364
    /\ \A c \in Columns : Len(results[c]) = Len(dates)
    /\ results[<<"official", "sunrise">>][1] = None
    /\ results[<<"astronomical", "sunset">>][1] = None
    /\ results[<<"official", "sunrise">>][Len(dates)].some
    /\ results[<<"official", "sunset">>][Len(dates)].some

(* ======================= claims: solar_times.main ===================== *)
\* the arccosine argument of main's hour angle is outside [-1, 1]
MainEventUndefined ==
    LET arg == cos_arg[config.latitude,
                       julian_century(
                           date_to_julian_day(datetime_str(config),
                                              config.utc_offset).v),
                       0 - 833]
    IN  arg.v < 0 - 10000 \/ arg.v > 10000

\* C3: in the single-instant calculation for a validated config, a
\* date/latitude whose arccosine argument is outside [-1, 1] ends in an
\* explicit no-value outcome (printed as not available), never in an
\* uncaught numerical exception and never in a fabricated number.
C3_UndefinedEventPrintedAsNotAvailable ==
    (m_pc \in {"printed", "traceback"} /\ MainEventUndefined)
    => /\ m_pc = "printed"
       /\ m_out.sunrise_str = [text |-> "N/A"]
       /\ m_out.sunset_str = [text |-> "N/A"]



\* the condition of C15, from its words
ConfigAccepted(cfg) ==
    /\ {"date", "utc_offset", "latitude", "longitude"} \subseteq DOMAIN cfg
    /\ cfg.latitude >= 0 - 90000 /\ cfg.latitude <= 90000
    /\ cfg.longitude >= 0 - 180000 /\ cfg.longitude <= 180000
    /\ cfg.utc_offset >= 0 - 12 /\ cfg.utc_offset <= 14
    /\ valid_date(cfg.date.y, cfg.date.m, cfg.date.d)
    /\ "time" \in DOMAIN cfg
         => /\ cfg.time.hh \in 0..23 /\ cfg.time.mi \in 0..59
            /\ "ss" \in DOMAIN cfg.time => cfg.time.ss \in 0..59

\* C15: validate_config returns exactly when the config has the keys date,
\* utc_offset, latitude and longitude, latitude is in [-90, 90], longitude in
\* [-180, 180], utc_offset in [-12, 14] (ends included), the date parses and
\* the time, if present, is HH:MM:SS or HH:MM; otherwise the program ends
\* with exit status 1 and no solar quantity is computed.
C15_ValidatesExactly ==
    m_pc \notin {"idle", "loaded"} =>
      /\ m_pc # "exit" <=> ConfigAccepted(config)
      /\ m_pc = "exit" => m_out = [status |-> 1, message |-> validate_config(config)]
      /\ m_pc = "validated" => m_out = "none"

\* a configuration at the ends of all three ranges has been accepted
C15_Witness ==
    /\ m_pc = "validated"
    /\ config.latitude = 90000
    /\ config.longitude = 0 - 180000
    /\ config.utc_offset = 14
    /\ "time" \in DOMAIN config /\ "ss" \notin DOMAIN config.time

(* -------------------- decimal_hours_to_time_string -------------------- *)
\* the two while loops: add 24 while negative, subtract 24 while >= 24
wrap_24[decimal_hours \in Int] == decimal_hours % (24 * Hour)

\* faulty variant: an absent value is rendered as midnight
decimal_hours_to_time_string_absent_as_midnight(decimal_hours) ==
    IF decimal_hours = None \/ decimal_hours = NaN
    THEN [text |-> "HH:MM:SS", hours |-> 0, minutes |-> 0, seconds |-> 0]
    ELSE LET wrapped == wrap_24[decimal_hours.v]
             hours == trunc_div[wrapped, Hour]
             minutes == trunc_div[(wrapped - hours * Hour) * 60, Hour]
             seconds == trunc_div[((wrapped - hours * Hour) * 60 - minutes * Hour) * 60,
                                  Hour]
         IN  [text |-> "HH:MM:SS", hours |-> hours, minutes |-> minutes,
              seconds |-> seconds]

\* noaa_solar_calculations.decimal_hours_to_time_string: the value None (not
\* a text) for None or NaN, else the fields of the wrapped value
decimal_hours_to_time_string(decimal_hours) ==
    IF decimal_hours = None \/ decimal_hours = NaN THEN [text |-> "None"]
    ELSE LET wrapped == wrap_24[decimal_hours.v]
             hours == trunc_div[wrapped, Hour]
             minutes == trunc_div[(wrapped - hours * Hour) * 60, Hour]
             seconds == trunc_div[((wrapped - hours * Hour) * 60 - minutes * Hour) * 60,
                                  Hour]
         IN  [text |-> "HH:MM:SS", hours |-> hours, minutes |-> minutes,
              seconds |-> seconds]

\* round(x / unit): Python rounds a tie to the even integer
round_div[x \in Int, unit \in Int] ==
    LET q == x \div unit
        r == x % unit
    IN  IF 2 * r > unit THEN q + 1
        ELSE IF 2 * r < unit THEN q
        ELSE IF q % 2 = 0 THEN q ELSE q + 1

\* noaa_plotly.decimal_hours_to_time_string: "N/A" for None or NaN, else
\* HH:MM of the wrapped value rounded to the closest minute
plotly_decimal_hours_to_time_string(decimal_hours) ==
    IF decimal_hours = None \/ decimal_hours = NaN THEN [text |-> "N/A"]
    ELSE LET rounded == round_div[wrap_24[decimal_hours.v] * 60, Hour]
             total_minutes == IF rounded >= 24 * 60 THEN 0 ELSE rounded
         IN  [text |-> "HH:MM", hours |-> total_minutes \div 60,
              minutes |-> total_minutes % 60]

\* the formatters are called on None, on NaN and on the hours
\* -FormatSpan .. FormatSpan plus a part of an hour
FormatSpan == 26
FormatParts == {0, 1, 25000, 50000, 98765, 99999}
FormatModules == {"solar_times", "noaa_solar_calculations", "noaa_plotly"}
FormatInputs ==
    {None, NaN}
      \cup {Some(h * Hour + part) : h \in (0 - FormatSpan)..FormatSpan,
                                    part \in FormatParts}

InitFormat ==
    /\ \E module \in FormatModules, decimal_hours \in FormatInputs :
         f_in = [module |-> module, decimal_hours |-> decimal_hours]
    /\ f_out = "none"
    /\ f_pc = "call"
    /\ IdleJD /\ IdleEvent /\ IdleYear /\ IdleMain /\ IdleRepeat /\ IdleApi
    /\ IdleYearApi /\ IdleDual /\ IdleTime

CallSolarTimesFormat ==
    /\ f_pc = "call" /\ f_in.module = "solar_times"
    /\ f_out' = st_decimal_hours_to_time_string[f_in.decimal_hours]
    /\ f_pc' = "done"
    /\ UNCHANGED <<f_in, jd_vars, ev_vars, y_vars, m_vars, r_vars, a_vars, q_vars, d_vars, t_vars>>

CallNoaaFormat ==
    /\ f_pc = "call" /\ f_in.module = "noaa_solar_calculations"
    /\ f_out' = decimal_hours_to_time_string(f_in.decimal_hours)
    /\ f_pc' = "done"
    /\ UNCHANGED <<f_in, jd_vars, ev_vars, y_vars, m_vars, r_vars, a_vars, q_vars, d_vars, t_vars>>

CallPlotlyFormat ==
    /\ f_pc = "call" /\ f_in.module = "noaa_plotly"
    /\ f_out' = plotly_decimal_hours_to_time_string(f_in.decimal_hours)
    /\ f_pc' = "done"
    /\ UNCHANGED <<f_in, jd_vars, ev_vars, y_vars, m_vars, r_vars, a_vars, q_vars, d_vars, t_vars>>

NextFormat == CallSolarTimesFormat \/ CallNoaaFormat \/ CallPlotlyFormat

SpecFormat == InitFormat /\ [][NextFormat]_vars

(* ============= claims: decimal_hours_to_time_string ==================== *)
\* HH:MM:SS of h by the floor: HH = floor(h) mod 24, MM = floor(f * 60),
\* SS = floor((f * 60 - MM) * 60), with f = h - floor(h)
FloorFields(v) ==
    LET f == v - (v \div Hour) * Hour
        MM == (f * 60) \div Hour
    IN  [text |-> "HH:MM:SS", hours |-> (v \div Hour) % 24, minutes |-> MM,
         seconds |-> ((f * 60 - MM * Hour) * 60) \div Hour]

\* C12: for every decimal-hours value, negative ones and those of 24 or more
\* included, the formatter of solar_times.py and the one of
\* noaa_solar_calculations.py return HH:MM:SS with HH = floor(h) mod 24,
\* MM = floor(f*60), SS = floor((f*60 - MM)*60), f = h - floor(h); HH is in
\* 0..23, MM and SS in 0..59, and the two return the same string.
C12_FieldsFromFloor ==
    (/\ f_pc = "done"
     /\ f_in.module \in {"solar_times", "noaa_solar_calculations"}
     /\ f_in.decimal_hours \in Cells /\ f_in.decimal_hours # None)
    => /\ f_out = FloorFields(f_in.decimal_hours.v)
       /\ f_out.hours \in 0..23
       /\ f_out.minutes \in 0..59
       /\ f_out.seconds \in 0..59
       /\ st_decimal_hours_to_time_string[f_in.decimal_hours]
            = decimal_hours_to_time_string(f_in.decimal_hours)

IsMarker(out) == out = [text |-> "N/A"] \/ out = [text |-> "None"]
IsClockString(out) == "text" \in DOMAIN out /\ out.text \in {"HH:MM:SS", "HH:MM"}

\* C13: an absent value given to a formatter is rendered as the
\* not-available marker ("N/A" or None), never as a clock string; a value
\* that is present is rendered as a clock string, never as the marker.  NaN
\* is absent to the formatters that read a table (noaa_solar_calculations,
\* noaa_plotly); solar_times never renders it as a clock string.
C13_AbsentIsMarker ==
    f_pc = "done" =>
      /\ f_in.decimal_hours = None => IsMarker(f_out)
      /\ (f_in.decimal_hours = NaN /\ f_in.module # "solar_times")
            => IsMarker(f_out)
      /\ f_in.decimal_hours \in {None, NaN} => ~IsClockString(f_out)
      /\ f_in.decimal_hours \notin {None, NaN}
            => (IsClockString(f_out) /\ ~IsMarker(f_out))

\* None went through the formatter of noaa_solar_calculations and came back
\* as None
C13_Witness ==
    /\ f_pc = "done" /\ f_in.module = "noaa_solar_calculations"
    /\ f_in.decimal_hours = None
    /\ f_out = [text |-> "None"]


(* ------------- yearly_sun_times_dataframe, called repeatedly ----------- *)
\* faulty variant: the year is always read from the clock
resolve_year_always_today(year, today) == today

\* if year is None: year = date.today().year
resolve_year(year, today) == IF year = None THEN today ELSE year.v

\* dates = [] and results = {column: []}
empty_results == [c \in Columns |-> <<>>]

\* what a call has produced: the DataFrame's columns, or the exception
Table == [pc |-> y_pc, dates |-> dates, results |-> results]
NoTable == [pc |-> "none"]

\* Longyearbyen, with the year given or left out
RepeatRequests ==
    {[latitude |-> 78223, longitude |-> 15650, timezone_offset |-> 1,
      year |-> year] : year \in {Some(2023), None}}
\* the calendar years the calls are made in
ClockYears == SweepYears
FirstClockYear == CHOOSE y \in ClockYears : \A z \in ClockYears : y <= z

\* lines 232-254 of a call made in the year today
BeginSweep(request, today) ==
    /\ r_request' = request
    /\ r_today' = today
    /\ y_args' = [latitude |-> request.latitude, longitude |-> request.longitude,
                  timezone_offset |-> request.timezone_offset,
                  year |-> resolve_year(request.year, today)]
    /\ current_date' = DateOf(resolve_year(request.year, today), 1, 1)
    /\ dates' = <<>>
    /\ results' = empty_results
    /\ y_pc' = "loop"

InitRepeat ==
    /\ \E request \in RepeatRequests :
         /\ r_request = request
         /\ y_args = [latitude |-> request.latitude,
                      longitude |-> request.longitude,
                      timezone_offset |-> request.timezone_offset,
                      year |-> resolve_year(request.year, FirstClockYear)]
         /\ current_date =
              DateOf(resolve_year(request.year, FirstClockYear), 1, 1)
    /\ r_today = FirstClockYear
    /\ dates = <<>>
    /\ results = empty_results
    /\ y_pc = "loop"
    /\ r_tables = [request \in RepeatRequests |-> NoTable]
    /\ r_phase = "first"
    /\ IdleJD /\ IdleEvent /\ IdleMain /\ IdleFormat /\ IdleApi
    /\ IdleYearApi /\ IdleDual /\ IdleTime

\* the previous call has ended; the next one is made, now or in a later year
CallAgain ==
    /\ y_pc \in {"returned", "raised"}
    /\ r_phase \in {"first", "between"}
    /\ r_phase' = IF r_phase = "first" THEN "between" ELSE "again"
    /\ r_tables' = [r_tables EXCEPT ![r_request] = Table]
    /\ \E request \in RepeatRequests, today \in ClockYears :
         today >= r_today /\ BeginSweep(request, today)
    /\ UNCHANGED <<jd_vars, ev_vars, m_vars, f_vars, a_vars, q_vars, d_vars, t_vars>>

NextRepeat == SweepDay \/ SweepReturn \/ CallAgain

SpecRepeat == InitRepeat /\ [][NextRepeat]_vars

(* ======== claims: yearly_sun_times_dataframe, called repeatedly ======== *)
CallEnded == r_phase # "idle" /\ y_pc \in {"returned", "raised"}

CleanupMaxAgeDays == 7
\* cache_max_age_hours=24, the default and what the fallback passes
DefaultCacheMaxAgeHours == 24
\* stale_cache_max_age_days=30
StaleCacheMaxAgeDays == 30
\* Retry(status_forcelist=[429, 500, 502, 503, 504])
StatusForcelist == {"429", "500", "502", "503", "504"}

\* a file of the cache directory: absent, or its st_mtime and the pickled table
NoEntry == [exists |-> FALSE]
Entry(mtime, data) == [exists |-> TRUE, mtime |-> mtime, data |-> data]

\* faulty variant of the cleanup: nothing is removed
cleanup_old_cache_files_keeps_all(cache, now) == cache

\* _cleanup_old_cache_files: every file older than max_age_days is unlinked
cleanup_old_cache_files(cache, now) ==
    [k \in DOMAIN cache |->
       IF cache[k].exists /\ now - cache[k].mtime > CleanupMaxAgeDays * 24
       THEN NoEntry ELSE cache[k]]

\* _load_from_cache: the table if the file exists and is younger than
\* max_age_hours; a file that is not is unlinked.  df is what is returned,
\* cache the directory afterwards
load_from_cache(cache, cache_key, max_age_hours, now) ==
    IF cache[cache_key].exists
    THEN IF now - cache[cache_key].mtime < max_age_hours
         THEN [df |-> Some(cache[cache_key].data), cache |-> cache]
         ELSE [df |-> None, cache |-> [cache EXCEPT ![cache_key] = NoEntry]]
    ELSE [df |-> None, cache |-> cache]

\* _save_to_cache: the file is written now
save_to_cache(cache, cache_key, df, now) ==
    [cache EXCEPT ![cache_key] = Entry(now, df)]

\* one session.get through the adapter with Retry(total=max_retries): a
\* status of the forcelist or a failed connection is retried by the adapter
\* until total is used up; any other answer is final
requests_per_get(server, max_retries) ==
    IF server \in StatusForcelist \cup {"unreachable"}
    THEN max_retries + 1 ELSE 1

\* "503" in str(e): RetryError says "too many 503 error responses"
contains_503(exception) == exception.last = "503"

\* the directory after lines 185-187 and the result of lines 211-218
check_cache(call, cache, now) ==
    IF call.use_cache
    THEN load_from_cache(cleanup_old_cache_files(cache, now), call.key,
                         call.cache_max_age_hours, now)
    ELSE [df |-> None, cache |-> cache]

\* what the API does with the request of one pass of the loop: "200" is an
\* answer of status OK with results; "INVALID_REQUEST" an answer whose
\* status is not OK; "empty_results" an answer of status OK whose results
\* are empty; "unexpected_shape" one whose results are neither a dict nor a
\* list; the others are HTTP errors and a refused connection
ApiAnswers ==
    {"200", "INVALID_REQUEST", "empty_results", "unexpected_shape",
     "404", "503", "unreachable"}

\* lines 263-286: what the try block does with the answer.  session.get and
\* raise_for_status raise a RequestException; the checks of the decoded
\* answer raise ValueError; otherwise the table is built
response_outcome(answer) ==
    CASE answer = "200" -> "ok"
      [] answer = "INVALID_REQUEST" -> "ValueError"
      [] answer = "empty_results" -> "ValueError"
      [] answer = "unexpected_shape" -> "ValueError"
      [] OTHER -> "RequestException"

\* faulty variant: every exception of the try block leads to the next pass
caught_for_retry_any_exception(exception) == exception # "ok"

\* lines 325 and 334: except requests.exceptions.RequestException is the
\* clause that continues the loop; except Exception raises ValueError
caught_for_retry(exception) == exception = "RequestException"

\* faulty variant: the delay grows by retry_delay with every attempt
retry_sleep_linear(retry_delay, attempt, jitter) ==
    retry_delay * attempt + jitter

\* line 256, in milliseconds: retry_delay * (2 ** (attempt - 1)) +
\* random.uniform(0, 1)
retry_sleep(retry_delay, attempt, jitter) ==
    retry_delay * (2 ^ (attempt - 1)) + jitter

\* the entries of the log: time.sleep(delay) and session.get of one pass
Slept(attempt, delay) == [kind |-> "sleep", attempt |-> attempt, delay |-> delay]
Got(attempt) == [kind |-> "get", attempt |-> attempt]

\* the answer to the request of a pass: a 404 for the first call.fails
\* passes, then call.server
answer_of(call, attempt) ==
    IF attempt < call.fails THEN "404" ELSE call.server

ApiStart == 1000
ApiKeys == {"k1", "k2"}
\* ages in hours of the files found in the directory
InitialAges == {1, 23, 24, 25, 168, 169, 719, 720, 721}
ApiServers == ApiAnswers
\* retry_delay in milliseconds: the defaults 15.0 and 5.0
RetryDelays == {15000, 5000}
\* random.uniform(0, 1) in milliseconds: the two ends of the interval
Jitters == {0, 1000}
ApiCalls ==
    [fn : {"get_sunrise_sunset_data"}, key : {"k1"}, max_retries : {0, 3},
     retry_delay : {15000}, use_cache : BOOLEAN,
     cache_max_age_hours : {DefaultCacheMaxAgeHours, StaleCacheMaxAgeDays * 24},
     server : ApiServers, fails : {0}]
    \cup
    [fn : {"get_sunrise_sunset_data"}, key : {"k1"}, max_retries : {0, 3},
     retry_delay : RetryDelays, use_cache : {FALSE},
     cache_max_age_hours : {DefaultCacheMaxAgeHours},
     server : ApiServers, fails : {1}]
    \cup
    [fn : {"get_sunrise_sunset_data_with_stale_cache_fallback"}, key : {"k1"},
     max_retries : {0, 3}, retry_delay : {15000}, use_cache : {TRUE},
     cache_max_age_hours : {DefaultCacheMaxAgeHours}, server : ApiServers,
     fails : {0}]
\* hours between the end of a call and the next call
ApiWaits == {0, 25, 200}

InitApi ==
    /\ a_now = ApiStart
    /\ \E first \in {NoEntry} \cup {Entry(ApiStart - age, [key |-> "k1", fetched |-> ApiStart - age]) :
                                       age \in InitialAges},
          other \in {NoEntry, Entry(ApiStart - 200, [key |-> "k2", fetched |-> ApiStart - 200])} :
         a_cache = [k \in ApiKeys |-> IF k = "k1" THEN first ELSE other]
    /\ a_call \in ApiCalls
    /\ a_before = a_cache
    /\ a_pc = "begin"
    /\ a_attempt = 0
    /\ a_requests = 0
    /\ a_out = "none"
    /\ a_phase = "first"
    /\ a_log = <<>>
    /\ IdleJD /\ IdleEvent /\ IdleYear /\ IdleMain /\ IdleFormat /\ IdleRepeat
    /\ IdleYearApi /\ IdleDual /\ IdleTime

\* lines 185-218: the cleanup, the cache key, the look in the cache
ApiCheckCache ==
    /\ a_pc = "begin"
    /\ \E found \in {check_cache(a_call, a_cache, a_now)} :
         /\ a_cache' = found.cache
         /\ IF found.df # None
            THEN a_pc' = "returned" /\ a_out' = found.df.v
            ELSE a_pc' = "attempt" /\ a_out' = a_out
    /\ UNCHANGED <<a_now, a_call, a_before, a_attempt, a_requests, a_phase, a_log,
                   jd_vars, ev_vars, y_vars, m_vars, f_vars, r_vars, q_vars, d_vars, t_vars>>

\* lines 254-260: a pass after the first sleeps before it sends its request
ApiSleep ==
    /\ a_pc = "attempt"
    /\ a_attempt > 0
    /\ \E jitter \in Jitters :
         a_log' = Append(a_log, Slept(a_attempt,
                                      retry_sleep(a_call.retry_delay, a_attempt, jitter)))
    /\ a_pc' = "request"
    /\ UNCHANGED <<a_now, a_cache, a_call, a_before, a_attempt, a_requests, a_out,
                   a_phase,
                   jd_vars, ev_vars, y_vars, m_vars, f_vars, r_vars, q_vars, d_vars, t_vars>>

\* line 254: the first pass does not sleep
ApiNoSleep ==
    /\ a_pc = "attempt"
    /\ a_attempt = 0
    /\ a_pc' = "request"
    /\ UNCHANGED <<a_now, a_cache, a_call, a_before, a_attempt, a_requests, a_out,
                   a_phase, a_log,
                   jd_vars, ev_vars, y_vars, m_vars, f_vars, r_vars, q_vars, d_vars, t_vars>>

\* lines 263-323: the request of one pass, the API answering with a table
ApiAttemptSucceeds ==
    /\ a_pc = "request"
    /\ response_outcome(answer_of(a_call, a_attempt)) = "ok"
    /\ a_requests' = a_requests
                       + requests_per_get(answer_of(a_call, a_attempt), a_call.max_retries)
    /\ a_log' = Append(a_log, Got(a_attempt))
    /\ a_out' = [key |-> a_call.key, fetched |-> a_now]
    /\ a_cache' = IF a_call.use_cache
                  THEN save_to_cache(a_cache, a_call.key, a_out', a_now)
                  ELSE a_cache
    /\ a_pc' = "returned"
    /\ UNCHANGED <<a_now, a_call, a_before, a_attempt, a_phase,
                   jd_vars, ev_vars, y_vars, m_vars, f_vars, r_vars, q_vars, d_vars, t_vars>>

\* lines 263-286 and 334-335: the try block raises an exception that is not
\* a RequestException; it is wrapped in a ValueError and leaves the loop
ApiAttemptRejected ==
    /\ a_pc = "request"
    /\ response_outcome(answer_of(a_call, a_attempt)) # "ok"
    /\ ~caught_for_retry(response_outcome(answer_of(a_call, a_attempt)))
    /\ a_requests' = a_requests
                       + requests_per_get(answer_of(a_call, a_attempt), a_call.max_retries)
    /\ a_log' = Append(a_log, Got(a_attempt))
    /\ a_out' = [exception |-> "ValueError"]
    /\ a_pc' = "raised"
    /\ UNCHANGED <<a_now, a_cache, a_call, a_before, a_attempt, a_phase,
                   jd_vars, ev_vars, y_vars, m_vars, f_vars, r_vars, q_vars, d_vars, t_vars>>

\* lines 263-264 and 325-333: the exception of the try block is caught for
\* another pass; continue while attempt < max_retries, else break
ApiAttemptFails ==
    /\ a_pc = "request"
    /\ response_outcome(answer_of(a_call, a_attempt)) # "ok"
    /\ caught_for_retry(response_outcome(answer_of(a_call, a_attempt)))
    /\ a_requests' = a_requests
                       + requests_per_get(answer_of(a_call, a_attempt), a_call.max_retries)
    /\ a_log' = Append(a_log, Got(a_attempt))
    /\ a_out' = [last_exception |-> answer_of(a_call, a_attempt)]
    /\ IF a_attempt < a_call.max_retries
       THEN a_attempt' = a_attempt + 1 /\ a_pc' = "attempt"
       ELSE a_attempt' = a_attempt /\ a_pc' = "exhausted"
    /\ UNCHANGED <<a_now, a_cache, a_call, a_before, a_phase,
                   jd_vars, ev_vars, y_vars, m_vars, f_vars, r_vars, q_vars, d_vars, t_vars>>

\* lines 337-348: requests.RequestException is raised; in the fallback,
\* lines 481-483 and 520-522: it is raised again unless it mentions 503
ApiRaise ==
    /\ a_pc = "exhausted"
    /\ a_out' = [exception |-> "RequestException", last |-> a_out.last_exception]
    /\ a_pc' = IF a_call.fn = "get_sunrise_sunset_data_with_stale_cache_fallback"
                  /\ contains_503(a_out')
               THEN "stale" ELSE "raised"
    /\ UNCHANGED <<a_now, a_cache, a_call, a_before, a_attempt, a_requests, a_phase,
                   a_log,
                   jd_vars, ev_vars, y_vars, m_vars, f_vars, r_vars, q_vars, d_vars, t_vars>>

\* lines 484-518: the fallback looks for a file of up to
\* stale_cache_max_age_days and returns it, or raises e
FallbackStaleCache ==
    /\ a_pc = "stale"
    /\ \E stale \in {load_from_cache(a_cache, a_call.key,
                                      StaleCacheMaxAgeDays * 24, a_now)} :
         /\ a_cache' = stale.cache
         /\ IF stale.df # None
            THEN a_pc' = "returned" /\ a_out' = stale.df.v
            ELSE a_pc' = "raised" /\ a_out' = a_out
    /\ UNCHANGED <<a_now, a_call, a_before, a_attempt, a_requests, a_phase, a_log,
                   jd_vars, ev_vars, y_vars, m_vars, f_vars, r_vars, q_vars, d_vars, t_vars>>

\* the call has ended; some hours later the next call is made
ApiNextCall ==
    /\ a_pc \in {"returned", "raised"}
    /\ a_phase = "first"
    /\ a_phase' = "second"
    /\ \E wait \in ApiWaits : a_now' = a_now + wait
    /\ a_call' \in ApiCalls
    /\ a_before' = a_cache
    /\ a_pc' = "begin"
    /\ a_attempt' = 0
    /\ a_requests' = 0
    /\ a_out' = "none"
    /\ a_log' = <<>>
    /\ UNCHANGED <<a_cache, jd_vars, ev_vars, y_vars, m_vars, f_vars, r_vars, q_vars, d_vars, t_vars>>

NextApi ==
    \/ ApiCheckCache \/ ApiSleep \/ ApiNoSleep \/ ApiAttemptSucceeds
    \/ ApiAttemptRejected \/ ApiAttemptFails \/ ApiRaise \/ FallbackStaleCache
    \/ ApiNextCall

SpecApi == InitApi /\ [][NextApi]_vars

(* ========================= claims: from_api.py ======================== *)
ApiCallEnded == a_pc \in {"returned", "raised"}
\* the age, when the call was made, of the file of the call's key
AgeBefore == a_now - a_before[a_call.key].mtime

\* C16: get_sunrise_sunset_data_with_stale_cache_fallback: when the API
\* fails with 503 and a cache entry of the same key exists that is older
\* than 24 hours but at most 30 days old, that entry is returned and nothing
\* is raised.
C16_StaleEntryServedOn503 ==
    (/\ ApiCallEnded
     /\ a_call.fn = "get_sunrise_sunset_data_with_stale_cache_fallback"
     /\ a_call.server = "503"
     /\ a_before[a_call.key].exists
     /\ AgeBefore > 24 /\ AgeBefore <= 30 * 24)
    => (a_pc = "returned" /\ a_out = a_before[a_call.key].data)

\* C17: when every request fails with a network or HTTP error,
\* get_sunrise_sunset_data sends at most max_retries + 1 HTTP requests, the
\* loop and the Retry adapter counted together, and then raises
\* requests.RequestException.
C17_AtMostMaxRetriesPlusOneRequests ==
    (/\ a_pc = "raised"
     /\ a_call.fn = "get_sunrise_sunset_data"
     /\ a_call.server \in {"404", "503", "unreachable"})
    => /\ a_requests <= a_call.max_retries + 1
       /\ a_out.exception = "RequestException"

\* C18: with use_cache=True, an entry of the same key younger than
\* cache_max_age_hours is returned and no request is sent; an entry at or
\* beyond that age is deleted, the API is called and the fresh result is in
\* the cache when it is returned.
C18_FreshEntryServedWithoutRequest ==
    (/\ ApiCallEnded
     /\ a_call.fn = "get_sunrise_sunset_data"
     /\ a_call.use_cache
     /\ a_before[a_call.key].exists)
    => /\ AgeBefore < a_call.cache_max_age_hours
            => /\ a_pc = "returned"
               /\ a_out = a_before[a_call.key].data
               /\ a_requests = 0
       /\ (AgeBefore >= a_call.cache_max_age_hours /\ a_pc = "returned")
            => /\ a_requests > 0
               /\ a_out.fetched = a_now
               /\ a_cache[a_call.key] = Entry(a_now, a_out)
       /\ (AgeBefore >= a_call.cache_max_age_hours /\ a_pc = "raised")
            => ~a_cache[a_call.key].exists


\* the answers whose decoded content the try block refuses
RefusedAnswers == {"INVALID_REQUEST", "empty_results", "unexpected_shape"}
\* the answers that are network or HTTP failures
FailedAnswers == {"404", "503", "unreachable"}

\* C21: in get_sunrise_sunset_data, an answer whose status is not OK, whose
\* results are empty or whose results have an unexpected shape raises
\* ValueError on the pass that received it: its request is the last entry of
\* the log (no sleep and no request follow it), and every request that was
\* followed by another pass had failed with a network or HTTP error.
C21_RefusedAnswerRaisesValueErrorAtOnce ==
    \A i \in 1..Len(a_log) :
       a_log[i].kind = "get" =>
         /\ answer_of(a_call, a_log[i].attempt) \in RefusedAnswers
              => /\ i = Len(a_log)
                 /\ a_attempt = a_log[i].attempt
                 /\ a_pc = "raised"
                 /\ a_out = [exception |-> "ValueError"]
         /\ i < Len(a_log)
              => answer_of(a_call, a_log[i].attempt) \in FailedAnswers

\* after a failed first pass, the second pass of a call with three retries
\* left received results of an unexpected shape and ValueError was raised
C21_Witness ==
    /\ a_pc = "raised"
    /\ a_call.fn = "get_sunrise_sunset_data"
    /\ a_call.server = "unexpected_shape"
    /\ a_call.fails = 1
    /\ a_call.max_retries = 3
    /\ a_log = <<Got(0), a_log[2], Got(1)>>
    /\ a_out = [exception |-> "ValueError"]

\* C25: in the loop of get_sunrise_sunset_data the first request is sent
\* without a sleep, and the request of pass k >= 1 comes directly after a
\* sleep of retry_delay * 2^(k-1) plus a jitter of 0 to 1 second, which
\* itself follows the request of pass k - 1: retry_delay, then twice that,
\* then four times.
C25_SleepBeforeEveryRetry ==
    \A i \in 1..Len(a_log) :
       IF a_log[i].kind = "get"
       THEN IF a_log[i].attempt = 0
            THEN i = 1
            ELSE /\ i > 1
                 /\ a_log[i - 1].kind = "sleep"
                 /\ a_log[i - 1].attempt = a_log[i].attempt
       ELSE /\ a_log[i].attempt >= 1
            /\ i > 1
            /\ a_log[i - 1] = Got(a_log[i].attempt - 1)
            /\ \E jitter \in 0..1000 :
                 a_log[i].delay =
                   a_call.retry_delay
                     * (IF a_log[i].attempt = 1 THEN 1
                        ELSE IF a_log[i].attempt = 2 THEN 2
                        ELSE IF a_log[i].attempt = 3 THEN 4 ELSE 0)
                   + jitter

\* all four passes of a call with the default retry_delay were made: the
\* sleeps were of 15, 30 and 61 seconds
C25_Witness ==
    /\ a_call.retry_delay = 15000
    /\ Len(a_log) = 7
    /\ a_log[2] = Slept(1, 15000)
    /\ a_log[4] = Slept(2, 30000)
    /\ a_log[6] = Slept(3, 61000)
    /\ a_log[7] = Got(3)

(* ---------------------- get_sunrise_sunset_year ----------------------- *)
\* the API's limit: a request of more days is refused
ApiMaxDays == 365

\* a row of a table of the API: the date and the timezone of its times; the
\* other columns travel with the row
DateSet == [kind : {"date"}, y : Int, m : Int, d : Int]
RowSet ==
    [date : DateSet, timezone : STRING]
      \cup [date : DateSet, timezone : STRING, active_timezone : STRING]
Row(date, timezone) == [date |-> date, timezone |-> timezone]

\* the day number of a date, and the date of a day number (the Gregorian
\* calendar of datetime.date)
Ordinal(date) == jd_date(date.y, date.m, date.d)
from_ordinal[day \in Int] ==
    LET a == day + 32044
        b == (4 * a + 3) \div 146097
        c == a - (146097 * b) \div 4
        d == (4 * c + 3) \div 1461
        e == c - (1461 * d) \div 4
        m == (5 * e + 2) \div 153
    IN  [kind |-> "date", y |-> 100 * b + d - 4800 + m \div 10,
         m |-> m + 3 - 12 * (m \div 10), d |-> e - (153 * m + 2) \div 5 + 1]

\* the dates from cur to end, one per day
dates_between[cur \in DateSet, end \in DateSet] ==
    [i \in 1..(Ordinal(end) - Ordinal(cur) + 1) |-> from_ordinal[Ordinal(cur) + i - 1]]

\* the number of days of a request
span_days(range) ==
    jd_date(range.date_end.y, range.date_end.m, range.date_end.d)
      - jd_date(range.date_start.y, range.date_start.m, range.date_start.d) + 1

reversed(s) == [i \in 1..Len(s) |-> s[Len(s) + 1 - i]]

\* what get_sunrise_sunset_data returns for a range: the rows the API has
\* for the dates of the range, in the API's order; ValueError when the API
\* refuses the request
api_get(timezone, range, api) ==
    IF span_days(range) > ApiMaxDays THEN Raise("ValueError")
    ELSE LET all == dates_between[range.date_start, range.date_end]
             kept == SelectSeq(all, LAMBDA date :
                                 Row(date, timezone) \notin api.missing)
             rows == [i \in 1..Len(kept) |-> Row(kept[i], timezone)]
         IN  Ok(IF api.order = "ascending" THEN rows ELSE reversed(rows))

\* the place of every row in the order of the dates, rows of one date
\* keeping their order
ranks_of[ords \in Seq(Int)] ==
    [i \in DOMAIN ords |->
       Cardinality({j \in DOMAIN ords :
                      ords[j] < ords[i] \/ (ords[j] = ords[i] /\ j < i)}) + 1]

place_by_rank[df \in Seq(RowSet), rank \in Seq(Int)] ==
    [k \in 1..Len(df) |-> df[CHOOSE i \in 1..Len(df) : rank[i] = k]]

\* df.sort_values("date").reset_index(drop=True)
sort_values(df) ==
    place_by_rank[df, ranks_of[[i \in 1..Len(df) |-> Ordinal(df[i].date)]]]

\* faulty variant: the whole leap year is asked for in one request
year_requests_unsplit(year) ==
    <<[date_start |-> DateOf(year, 1, 1), date_end |-> DateOf(year, 12, 31)]>>

\* the requests of get_sunrise_sunset_year: January 1 to December 30 and
\* December 31 for a leap year, the whole year otherwise
year_requests(year) ==
    IF is_leap(year)
    THEN <<[date_start |-> DateOf(year, 1, 1), date_end |-> DateOf(year, 12, 30)],
           [date_start |-> DateOf(year, 12, 31), date_end |-> DateOf(year, 12, 31)]>>
    ELSE <<[date_start |-> DateOf(year, 1, 1), date_end |-> DateOf(year, 12, 31)]>>

\* pd.concat(frames, ignore_index=True)
concat(frames) ==
    IF Len(frames) = 1 THEN frames[1] ELSE frames[1] \o frames[2]

YearTimezones == {"UTC", "UTC-3", "UTC-4"}
\* how the API answers: the order of its rows, and the rows it leaves out
ApiOrders == {"ascending", "descending"}
ApiBehaviours ==
    {[order |-> order, missing |-> missing] :
       order \in ApiOrders,
       missing \in {{}, {Row(DateOf(year, 6, 1), "UTC-4") : year \in SweepYears},
                    {Row(DateOf(year, 1, 1), "UTC-4") : year \in SweepYears}}}

InitYearApi ==
    /\ \E year \in SweepYears, timezone \in YearTimezones, api \in ApiBehaviours :
         q_in = [year |-> year, timezone |-> timezone, api |-> api]
    /\ q_requests = <<>>
    /\ q_frames = <<>>
    /\ q_out = "none"
    /\ q_pc = "fetch"
    /\ IdleJD /\ IdleEvent /\ IdleYear /\ IdleMain
    /\ IdleFormat /\ IdleRepeat /\ IdleApi /\ IdleDual /\ IdleTime

\* one call of get_sunrise_sunset_data: the next range is requested
YearFetch ==
    /\ q_pc = "fetch"
    /\ Len(q_requests) < Len(year_requests(q_in.year))
    /\ \E range \in {year_requests(q_in.year)[Len(q_requests) + 1]} :
         /\ q_requests' = Append(q_requests, range)
         /\ \E frame \in {api_get(q_in.timezone, range, q_in.api)} :
              IF IsOk(frame)
              THEN /\ q_frames' = Append(q_frames, frame.v)
                   /\ q_pc' = IF Len(q_requests') = Len(year_requests(q_in.year))
                              THEN "combine" ELSE "fetch"
                   /\ q_out' = q_out
              ELSE /\ q_frames' = q_frames
                   /\ q_pc' = "raised"
                   /\ q_out' = frame
    /\ UNCHANGED <<q_in, jd_vars, ev_vars, y_vars, m_vars,
                   f_vars, r_vars, a_vars, d_vars, t_vars>>

\* the tables are concatenated and sorted by date
YearCombine ==
    /\ q_pc = "combine"
    /\ q_out' = sort_values(concat(q_frames))
    /\ q_pc' = "returned"
    /\ UNCHANGED <<q_in, q_requests, q_frames, jd_vars, ev_vars, y_vars, m_vars,
                   f_vars, r_vars, a_vars, d_vars, t_vars>>

NextYearApi == YearFetch \/ YearCombine

SpecYearApi == InitYearApi /\ [][NextYearApi]_vars

(* =================== claims: get_sunrise_sunset_year ================== *)
\* C19: every request of get_sunrise_sunset_year spans at most 365 days;
\* the requested ranges cover every day of the year exactly once (January 1
\* to December 30 and December 31 in a leap year, one request otherwise);
\* the rows are returned sorted by date ascending.
C19_YearInRequestsOfAtMost365Days ==
    /\ q_pc # "raised"
    /\ \A i \in 1..Len(q_requests) : span_days(q_requests[i]) \in 1..365
    /\ q_pc = "returned" =>
         /\ \A day \in Ordinal(DateOf(q_in.year, 1, 1))
                          ..Ordinal(DateOf(q_in.year, 12, 31)) :
              Cardinality({i \in 1..Len(q_requests) :
                             /\ Ordinal(q_requests[i].date_start) <= day
                             /\ day <= Ordinal(q_requests[i].date_end)}) = 1
         /\ \A i \in 1..Len(q_requests) :
              /\ q_requests[i].date_start.y = q_in.year
              /\ q_requests[i].date_end.y = q_in.year
         /\ Len(q_requests) = IF DaysOfYear(q_in.year) = 366 THEN 2 ELSE 1
         /\ \A i \in 1..(Len(q_out) - 1) :
              Ordinal(q_out[i].date) < Ordinal(q_out[i + 1].date)
         /\ Len(q_out) = Len(concat(q_frames))
         /\ \A i \in 1..Len(q_out) : q_out[i].timezone = q_in.timezone

\* a leap year came back in two requests, the second of one day, the rows
\* of the API sorted from descending to ascending
C19_Witness ==
    /\ q_pc = "returned"
    /\ q_in.year = 2024
    /\ q_in.api.order = "descending"
    /\ Len(q_requests) = 2
    /\ span_days(q_requests[1]) = 365
    /\ span_days(q_requests[2]) = 1
    /\ Len(q_out) = 366
    /\ q_out[1].date = DateOf(2024, 1, 1)


(* --------------- get_sunrise_sunset_year_dual_timezone ----------------- *)
\* get_sunrise_sunset_year as one call: the requests, the concatenation,
\* the sort
get_sunrise_sunset_year(year, timezone, api) ==
    LET requests == year_requests(year)
        frames == [i \in 1..Len(requests) |-> api_get(timezone, requests[i], api)]
    IN  IF \E i \in 1..Len(requests) : ~IsOk(frames[i])
        THEN Raise("ValueError")
        ELSE Ok(sort_values(concat([i \in 1..Len(requests) |-> frames[i].v])))

\* date.replace(year=year): ValueError for February 29 of a common year
replace_year(date, year) ==
    IF valid_date(year, date.m, date.d)
    THEN Ok([date EXCEPT !.y = year]) ELSE Raise("ValueError")

\* winter_mask
winter_mask(date_only, winter_start, summer_start) ==
    IF ~date_le(summer_start, winter_start)
    THEN date_le(winter_start, date_only) /\ ~date_le(summer_start, date_only)
    ELSE date_le(winter_start, date_only) \/ ~date_le(summer_start, date_only)

\* faulty variant: the winter row is the one at the same position
winter_row_by_position(df_winter, idx, date_val) ==
    IF idx <= Len(df_winter) THEN <<df_winter[idx]>> ELSE <<>>

\* df_winter[df_winter["date_only"] == date_val]
winter_row(df_winter, idx, date_val) ==
    SelectSeq(df_winter, LAMBDA row : row.date = date_val)

\* the timezones and the start dates moved to the year
MergeArgs ==
    [summer_timezone : STRING, winter_timezone : STRING,
     summer_start : DateSet, winter_start : DateSet]
Tables == Seq(RowSet)

\* lines 799-839: the summer table, the rows of the winter period replaced
\* by the winter row of their date where there is one
combine[df_summer \in Tables, df_winter \in Tables, args \in MergeArgs] ==
    [idx \in 1..Len(df_summer) |->
       LET found == IF winter_mask(df_summer[idx].date, args.winter_start,
                                   args.summer_start)
                    THEN winter_row(df_winter, idx, df_summer[idx].date)
                    ELSE <<>>
       IN  IF found # <<>>
           THEN [date |-> found[1].date, timezone |-> found[1].timezone,
                 active_timezone |-> args.winter_timezone]
           ELSE [date |-> df_summer[idx].date,
                 timezone |-> df_summer[idx].timezone,
                 active_timezone |-> args.summer_timezone]]

\* the start dates are given in any year
DualSummerStarts == {DateOf(2024, 10, 6), DateOf(2024, 3, 3), DateOf(2024, 2, 29)}
DualWinterStarts == {DateOf(2024, 3, 3), DateOf(2024, 10, 6)}
DualTimezones == {<<"UTC-3", "UTC-4">>, <<"UTC-4", "UTC-3">>}
DualApis == {api \in ApiBehaviours : api.order = "ascending"}

InitDual ==
    /\ \E year \in SweepYears, zones \in DualTimezones, api \in DualApis,
          summer_start_date \in DualSummerStarts,
          winter_start_date \in DualWinterStarts :
         d_in = [year |-> year, summer_timezone |-> zones[1],
                 winter_timezone |-> zones[2],
                 summer_start_date |-> summer_start_date,
                 winter_start_date |-> winter_start_date, api |-> api]
    /\ d_summer = "none"
    /\ d_winter = "none"
    /\ d_out = "none"
    /\ d_pc = "summer"
    /\ IdleJD /\ IdleEvent /\ IdleYear /\ IdleMain
    /\ IdleFormat /\ IdleRepeat /\ IdleApi /\ IdleYearApi /\ IdleTime

\* lines 776-795: the start dates are moved to the year, the year is
\* fetched in the summer timezone
DualFetchSummer ==
    /\ d_pc = "summer"
    /\ IF ~IsOk(replace_year(d_in.summer_start_date, d_in.year))
       THEN /\ d_pc' = "raised"
            /\ d_out' = replace_year(d_in.summer_start_date, d_in.year)
            /\ d_summer' = d_summer
       ELSE IF ~IsOk(replace_year(d_in.winter_start_date, d_in.year))
       THEN /\ d_pc' = "raised"
            /\ d_out' = replace_year(d_in.winter_start_date, d_in.year)
            /\ d_summer' = d_summer
       ELSE \E df \in {get_sunrise_sunset_year(d_in.year, d_in.summer_timezone,
                                               d_in.api)} :
              IF IsOk(df)
              THEN d_pc' = "winter" /\ d_summer' = df.v /\ d_out' = d_out
              ELSE d_pc' = "raised" /\ d_summer' = d_summer /\ d_out' = df
    /\ UNCHANGED <<d_in, d_winter, jd_vars, ev_vars, y_vars, m_vars,
                   f_vars, r_vars, a_vars, q_vars, t_vars>>

\* line 796: the year is fetched in the winter timezone
DualFetchWinter ==
    /\ d_pc = "winter"
    /\ \E df \in {get_sunrise_sunset_year(d_in.year, d_in.winter_timezone,
                                          d_in.api)} :
         IF IsOk(df)
         THEN d_pc' = "merge" /\ d_winter' = df.v /\ d_out' = d_out
         ELSE d_pc' = "raised" /\ d_winter' = d_winter /\ d_out' = df
    /\ UNCHANGED <<d_in, d_summer, jd_vars, ev_vars, y_vars, m_vars,
                   f_vars, r_vars, a_vars, q_vars, t_vars>>

\* lines 799-844: the merge, the sort, the return
DualMerge ==
    /\ d_pc = "merge"
    /\ d_out' = sort_values(
                   combine[d_summer, d_winter,
                           [summer_timezone |-> d_in.summer_timezone,
                            winter_timezone |-> d_in.winter_timezone,
                            summer_start |->
                              replace_year(d_in.summer_start_date, d_in.year).v,
                            winter_start |->
                              replace_year(d_in.winter_start_date, d_in.year).v]])
    /\ d_pc' = "returned"
    /\ UNCHANGED <<d_in, d_summer, d_winter, jd_vars, ev_vars, y_vars, m_vars,
                   f_vars, r_vars, a_vars, q_vars, t_vars>>

NextDual == DualFetchSummer \/ DualFetchWinter \/ DualMerge

SpecDual == InitDual /\ [][NextDual]_vars

(* ============ claims: get_sunrise_sunset_year_dual_timezone ============ *)
\* the winter period of C20, on day numbers, the starts moved to the year
InWinterPeriod(date) ==
    LET winter_start == Ordinal([d_in.winter_start_date EXCEPT !.y = d_in.year])
        summer_start == Ordinal([d_in.summer_start_date EXCEPT !.y = d_in.year])
    IN  IF winter_start < summer_start
        THEN winter_start <= Ordinal(date) /\ Ordinal(date) < summer_start
        ELSE Ordinal(date) >= winter_start \/ Ordinal(date) < summer_start

\* C20: the merge is by calendar date, not by position: the result has one
\* row per date of the summer table, in chronological order; a date in the
\* winter period that has a row in the winter table takes that row's values
\* and active_timezone = winter_timezone; every other date keeps the summer
\* values and active_timezone = summer_timezone.
C20_MergedByDate ==
    d_pc = "returned" =>
      /\ Len(d_out) = Len(d_summer)
      /\ \A i \in 1..Len(d_out) : d_out[i].date = d_summer[i].date
      /\ \A i \in 1..(Len(d_out) - 1) :
           Ordinal(d_out[i].date) < Ordinal(d_out[i + 1].date)
      /\ \A i \in 1..Len(d_out) :
           IF /\ InWinterPeriod(d_summer[i].date)
              /\ \E j \in 1..Len(d_winter) : d_winter[j].date = d_summer[i].date
           THEN /\ d_out[i].active_timezone = d_in.winter_timezone
                /\ d_out[i].timezone = d_in.winter_timezone
           ELSE /\ d_out[i].active_timezone = d_in.summer_timezone
                /\ d_out[i].timezone = d_in.summer_timezone

\* the winter table lacks January 1, so its rows are one position ahead of
\* the summer table's: January 1 kept the summer values, January 2 took the
\* winter row of January 2
C20_Witness ==
    /\ d_pc = "returned"
    /\ Len(d_winter) = Len(d_summer) - 1
    /\ d_out[1].active_timezone = d_in.summer_timezone
    /\ d_out[2].active_timezone = d_in.winter_timezone
    /\ d_in.winter_timezone # d_in.summer_timezone
    /\ d_out[2].date = DateOf(d_in.year, 1, 2)

(* ----------------------------- timeutils.py --------------------------- *)
\* the number of years from which the calls take their dates
TimeYearSpan == 8
TimeYears == 2020..(2020 + TimeYearSpan - 1)

\* a datetime of the observer's timezone, to the hour
DateTimeOf(y, m, d, hour) ==
    [kind |-> "datetime", y |-> y, m |-> m, d |-> d, hour |-> hour]

\* date.weekday(): Monday is 0 and Sunday is 6
weekday(d) == Ordinal(d) % 7

\* date(year, month, 1) + timedelta(days=(6 - d.weekday()) % 7)
first_sunday(year, month) ==
    LET d == DateOf(year, month, 1)
        days_to_sunday == (6 - weekday(d)) % 7
    IN  from_ordinal[Ordinal(d) + days_to_sunday]

\* lines 24-27: dt.date() of a datetime, a date as it is
to_date(dt) == IF dt.kind = "datetime" THEN DateOf(dt.y, dt.m, dt.d) ELSE dt

\* faulty variant: the first Sunday of September is still winter time
is_winter_time_end_inclusive(dt) ==
    LET d == to_date(dt)
        start == first_sunday(d.y, 4)
        end == first_sunday(d.y, 9)
    IN  Ordinal(start) <= Ordinal(d) /\ Ordinal(d) <= Ordinal(end)

\* start <= d < end
is_winter_time(dt) ==
    LET d == to_date(dt)
        start == first_sunday(d.y, 4)
        end == first_sunday(d.y, 9)
    IN  Ordinal(start) <= Ordinal(d) /\ Ordinal(d) < Ordinal(end)

\* lines 105-108: the dict the entries of one date are taken from
summertime_source(off_3_dict, off_4_dict, time) ==
    IF is_winter_time(time) THEN off_3_dict ELSE off_4_dict

\* get_results(..., UTC_offset) for the days of one year: sun_times puts the
\* datetime of 15:00 UTC in the observer's timezone into date; the values
\* are named by the offset they were computed for
get_results(year, UTC_offset) ==
    LET first == Ordinal(DateOf(year, 1, 1))
        days == Ordinal(DateOf(year + 1, 1, 1)) - first
        day(i) == from_ordinal[first + i - 1]
        value(column, i) == [UTC_offset |-> UTC_offset, column |-> column, day |-> i]
    IN  [date |-> [i \in 1..days |->
                     DateTimeOf(day(i).y, day(i).m, day(i).d, 15 + UTC_offset)],
         sunrise |-> [i \in 1..days |-> value("sunrise", i)],
         sunset |-> [i \in 1..days |-> value("sunset", i)],
         noon |-> [i \in 1..days |-> value("noon", i)]]

\* the dates and datetimes is_winter_time is called with: every day of the
\* years, as a date and as a datetime of the evening
WinterTimeInputs ==
    UNION {{from_ordinal[o],
            DateTimeOf(from_ordinal[o].y, from_ordinal[o].m, from_ordinal[o].d, 23)} :
           o \in Ordinal(DateOf(2020, 1, 1))
                   ..(Ordinal(DateOf(2020 + TimeYearSpan, 1, 1)) - 1)}

TimeCalls ==
    [fn : {"first_sunday"}, year : TimeYears, month : 1..12]
    \cup [fn : {"is_winter_time"}, dt : WinterTimeInputs]
    \cup {[fn |-> "get_summertime_results",
           off_3_dict |-> get_results(year, 0 - 3),
           off_4_dict |-> get_results(year, 0 - 4)] : year \in TimeYears}

InitTime ==
    /\ t_in \in TimeCalls
    /\ t_out = "none"
    /\ t_i = 0
    /\ t_rise = <<>>
    /\ t_set = <<>>
    /\ t_noon = <<>>
    /\ t_pc = "called"
    /\ IdleJD /\ IdleEvent /\ IdleYear /\ IdleMain /\ IdleFormat /\ IdleRepeat
    /\ IdleApi /\ IdleYearApi /\ IdleDual

\* first_sunday(year, month)
CallFirstSunday ==
    /\ t_pc = "called" /\ t_in.fn = "first_sunday"
    /\ t_out' = first_sunday(t_in.year, t_in.month)
    /\ t_pc' = "returned"
    /\ UNCHANGED <<t_in, t_i, t_rise, t_set, t_noon,
                   jd_vars, ev_vars, y_vars, m_vars, f_vars, r_vars, a_vars, q_vars,
                   d_vars>>

\* is_winter_time(dt)
CallIsWinterTime ==
    /\ t_pc = "called" /\ t_in.fn = "is_winter_time"
    /\ t_out' = is_winter_time(t_in.dt)
    /\ t_pc' = "returned"
    /\ UNCHANGED <<t_in, t_i, t_rise, t_set, t_noon,
                   jd_vars, ev_vars, y_vars, m_vars, f_vars, r_vars, a_vars, q_vars,
                   d_vars>>

\* lines 100-102: the three lists are empty
SummertimeBegin ==
    /\ t_pc = "called" /\ t_in.fn = "get_summertime_results"
    /\ t_pc' = "loop"
    /\ UNCHANGED <<t_in, t_out, t_i, t_rise, t_set, t_noon,
                   jd_vars, ev_vars, y_vars, m_vars, f_vars, r_vars, a_vars, q_vars,
                   d_vars>>

\* lines 104-113: one entry of off_3_dict["date"]
SummertimeStep ==
    /\ t_pc = "loop"
    /\ t_i < Len(t_in.off_3_dict.date)
    /\ \E d \in {summertime_source(t_in.off_3_dict, t_in.off_4_dict,
                                   t_in.off_3_dict.date[t_i + 1])} :
         /\ t_rise' = Append(t_rise, d.sunrise[t_i + 1])
         /\ t_set' = Append(t_set, d.sunset[t_i + 1])
         /\ t_noon' = Append(t_noon, d.noon[t_i + 1])
    /\ t_i' = t_i + 1
    /\ UNCHANGED <<t_in, t_out, t_pc,
                   jd_vars, ev_vars, y_vars, m_vars, f_vars, r_vars, a_vars, q_vars,
                   d_vars>>

\* line 115: the dict that is returned
SummertimeReturn ==
    /\ t_pc = "loop"
    /\ t_i = Len(t_in.off_3_dict.date)
    /\ t_out' = [date |-> t_in.off_3_dict.date, sunrise |-> t_rise,
                 sunset |-> t_set, noon |-> t_noon]
    /\ t_pc' = "returned"
    /\ UNCHANGED <<t_in, t_i, t_rise, t_set, t_noon,
                   jd_vars, ev_vars, y_vars, m_vars, f_vars, r_vars, a_vars, q_vars,
                   d_vars>>

NextTime ==
    \/ CallFirstSunday \/ CallIsWinterTime
    \/ SummertimeBegin \/ SummertimeStep \/ SummertimeReturn

SpecTime == InitTime /\ [][NextTime]_vars

(* ========================= claims: timeutils.py ======================= *)
\* the days from 2020-01-01 to a date, counted with the lengths of the
\* years and of the months
DaysToYear[y \in Int] ==
    IF y <= 2020 THEN 0
    ELSE DaysToYear[y - 1] + (IF is_leap(y - 1) THEN 366 ELSE 365)
DaysToMonth[y \in Int, m \in Int] ==
    IF m <= 1 THEN 0 ELSE DaysToMonth[y, m - 1] + days_in_month(y, m - 1)
DayCount(d) == DaysToYear[d.y] + DaysToMonth[d.y, d.m] + d.d - 1
\* 2020-01-01 was a Wednesday
IsSunday(d) == (2 + DayCount(d)) % 7 = 6

\* the earliest Sunday of a month, from the claim's words
EarliestSunday(year, month) ==
    CHOOSE s \in {DateOf(year, month, k) : k \in 1..days_in_month(year, month)} :
       /\ IsSunday(s)
       /\ \A k \in 1..(s.d - 1) : ~IsSunday(DateOf(year, month, k))

\* the condition of C24 and C23: from the first Sunday of April up to, and
\* not including, the first Sunday of September
InWinterTime(d) ==
    /\ DayCount(EarliestSunday(d.y, 4)) <= DayCount(d)
    /\ DayCount(d) < DayCount(EarliestSunday(d.y, 9))

\* C23: get_summertime_results takes sunrise, sunset and noon of every date
\* in winter time from off_4_dict (UTC -4) and of every other date from
\* off_3_dict (UTC -3), and returns the dates of off_3_dict in their order.
C23_WinterFromUtcMinus4 ==
    t_in.fn = "get_summertime_results" =>
      /\ \A i \in 1..t_i :
           LET d == IF InWinterTime(t_in.off_3_dict.date[i])
                    THEN t_in.off_4_dict ELSE t_in.off_3_dict
           IN  /\ t_rise[i] = d.sunrise[i]
               /\ t_set[i] = d.sunset[i]
               /\ t_noon[i] = d.noon[i]
      /\ t_pc = "returned" => t_out.date = t_in.off_3_dict.date

\* C24: first_sunday(year, month) is a Sunday of that month with day of
\* month in 1..7 and no Sunday of the month is before it; is_winter_time(d)
\* is true exactly when d is on or after the first Sunday of April and
\* before the first Sunday of September of d's year.
C24_WinterTimeBetweenFirstSundays ==
    t_pc = "returned" =>
      /\ t_in.fn = "first_sunday" =>
           /\ t_out.y = t_in.year /\ t_out.m = t_in.month
           /\ t_out.d \in 1..7
           /\ IsSunday(t_out)
           /\ \A k \in 1..(t_out.d - 1) :
                ~IsSunday(DateOf(t_in.year, t_in.month, k))
      /\ t_in.fn = "is_winter_time" => (t_out <=> InWinterTime(t_in.dt))

\* is_winter_time answered False for Sunday 2025-09-07, the first Sunday of
\* September
C24_Witness ==
    /\ t_pc = "returned"
    /\ t_in.fn = "is_winter_time"
    /\ t_in.dt = DateOf(2025, 9, 7)
    /\ IsSunday(t_in.dt)
    /\ t_out = FALSE

=============================================================================
